---- MODULE Spec2Model ----
(***************************************************************************)
(* Ledger and scheduling engine of the expense tracker (src/app.py).       *)
(*                                                                         *)
(* The three tables the engine works on (accounts, transactions, schedule) *)
(* are the state.  Every function of app.py that writes to a table is one  *)
(* action; a Python exception ends the function where it is raised and     *)
(* keeps the writes already made (every .execute() is its own request).    *)
(* Money is counted in whole minor units, so float(x) is exact here.       *)
(* The scheduler and the ledger functions are also given request by        *)
(* request, one session beside another, for what holds between requests.   *)
(***************************************************************************)
EXTENDS Integers, Sequences, FiniteSets, TLC

VARIABLES
    accounts,       \* table 'accounts':     id -> [balance]
    transactions,   \* table 'transactions': set of rows
    schedule,       \* table 'schedule':     set of rows
    nextTxId,       \* next serial id of table 'transactions'
    nextSchedId,    \* next serial id of table 'schedule'
    today,          \* date.today()
    clock,          \* last value read from time.time() * 1000
    opening,        \* history: the balance each account was created with
    legsOf,         \* history: transaction id -> ids inserted by the same submit
    funds,          \* table 'accounts': id -> the columns type, remark, goal_amount
    session,        \* each session's script run: where it is, its local variables
    executed,       \* history: <<schedule id, next_run_date, transaction id>> of
                    \* every transaction a run inserted for a schedule row
    columns,        \* table 'accounts': id -> the columns currency, is_active,
                    \* include_net_worth, manual_exchange_rate, goal_date
    page,           \* what the last script run put on the page
    last            \* history: the call that made the last step

vars == <<accounts, transactions, schedule, nextTxId, nextSchedId, today,
          clock, opening, legsOf, funds, session, executed, columns, page, last>>

\* what the ledger forms and the whole-function steps leave alone
\* the columns the overview reads and the page
shown == <<columns, page>>

others == <<funds, session, executed, shown>>

----------------------------------------------------------------------------
(* Bounds of the model *)

MaxTx == 2          \* transaction rows ever inserted
MaxSched == 1       \* schedule rows ever inserted
MaxBatch == 2       \* distinct millisecond stamps handed out as batch ids
MaxSwing == 4       \* how far a balance may move from the opening balance

NULL == 0           \* Python None / SQL NULL in an account-id column

AccountIds == {1, 2}  \* the ids of the rows of 'accounts'

NoType == "None"    \* schedule.type of a row inserted without a type
NoRemark == <<>>    \* remark without a "[Batch:" marker

----------------------------------------------------------------------------
(* Calendar: datetime.date, timedelta and dateutil.relativedelta.          *)
(* A date is <<year, month, day>>.                                         *)

Years == 2022..2027

IsLeap(y) == (y % 4 = 0) /\ ((y % 100 # 0) \/ (y % 400 = 0))

DaysInMonth(y, m) ==
    IF m = 2 THEN (IF IsLeap(y) THEN 29 ELSE 28)
    ELSE IF m \in {4, 6, 9, 11} THEN 30 ELSE 31

DaysBeforeYear(y) ==
    LET p == y - 1 IN p * 365 + (p \div 4) - (p \div 100) + (p \div 400)

RECURSIVE DaysBeforeMonth(_, _)
DaysBeforeMonth(y, m) ==
    IF m = 1 THEN 0 ELSE DaysBeforeMonth(y, m - 1) + DaysInMonth(y, m - 1)

toordinal(d) == DaysBeforeYear(d[1]) + DaysBeforeMonth(d[1], d[2]) + d[3]

fromordinal(n) ==
    LET y == CHOOSE yy \in Years :
                 DaysBeforeYear(yy) < n /\ n <= DaysBeforeYear(yy + 1)
        r == n - DaysBeforeYear(y)
        m == CHOOSE mm \in 1..12 :
                 DaysBeforeMonth(y, mm) < r
                 /\ r <= DaysBeforeMonth(y, mm) + DaysInMonth(y, mm)
    IN  <<y, m, r - DaysBeforeMonth(y, m)>>

\* date + timedelta(days = n)
timedelta(d, n) == fromordinal(toordinal(d) + n)

\* relativedelta that takes every February for 28 days
relativedelta_short_february(d, ys, ms) ==
    LET t == (d[2] - 1) + ms
        y == d[1] + ys + (t \div 12)
        m == (t % 12) + 1
        dim == IF m = 2 THEN 28 ELSE DaysInMonth(y, m)
    IN  <<y, m, IF d[3] > dim THEN dim ELSE d[3]>>

\* date + relativedelta(years = ys, months = ms): the month carries into the
\* year and the day is cut down to the last day of the month reached
relativedelta(d, ys, ms) ==
    LET t == (d[2] - 1) + ms
        y == d[1] + ys + (t \div 12)
        m == (t % 12) + 1
        dim == DaysInMonth(y, m)
    IN  <<y, m, IF d[3] > dim THEN dim ELSE d[3]>>

\* order of the ISO strings 'YYYY-MM-DD' (lte / gte on a date column)
DateLE(a, b) ==
    \/ a[1] < b[1]
    \/ a[1] = b[1] /\ a[2] < b[2]
    \/ a[1] = b[1] /\ a[2] = b[2] /\ a[3] <= b[3]

DateLT(a, b) == DateLE(a, b) /\ a # b

\* the days on which the script is run
Today0 == <<2024, 1, 31>>
RunDays == {<<2024, 1, 31>>, <<2024, 2, 29>>}

----------------------------------------------------------------------------
(* Ledger engine.  A database value db is the record                       *)
(*   [accounts, transactions, schedule, nextTxId, nextSchedId, raised,     *)
(*    found]                                                               *)
(* raised = TRUE: an exception left the function at that point;            *)
(* found = FALSE: delete_transaction returned False.                       *)

DB == [accounts |-> accounts, transactions |-> transactions,
       schedule |-> schedule, nextTxId |-> nextTxId,
       nextSchedId |-> nextSchedId, raised |-> FALSE, found |-> TRUE]

\* update_balance without the write-back
update_balance_lost(db, account_id, amount_change) ==
    IF account_id = NULL THEN db
    ELSE IF account_id \notin DOMAIN db.accounts
         THEN [db EXCEPT !.raised = TRUE]
         ELSE db

\* update_balance(account_id, amount_change)
update_balance(db, account_id, amount_change) ==
    IF account_id = NULL THEN db                            \* if not account_id: return
    ELSE IF account_id \notin DOMAIN db.accounts
         THEN [db EXCEPT !.raised = TRUE]                   \* .data[0] of an empty list
         ELSE [db EXCEPT !.accounts[account_id].balance = @ + amount_change]

\* b after a, unless a raised
Then(a, account_id, amount_change) ==
    IF a.raised THEN a ELSE update_balance(a, account_id, amount_change)

\* ApplyEffect with an Increase Loan that adds to the loan account
ApplyEffect_loan_added(db, amount, type, from_acc_id, to_acc_id) ==
    IF type \in {"Expense", "Virtual Expense"}
        THEN update_balance(db, from_acc_id, -amount)
    ELSE IF type \in {"Income", "Virtual Funding", "Increase Loan"}
        THEN update_balance(db, to_acc_id, amount)
    ELSE IF type = "Transfer"
        THEN Then(update_balance(db, from_acc_id, -amount), to_acc_id, amount)
    ELSE db

\* the balance updates of add_transaction, by type
ApplyEffect(db, amount, type, from_acc_id, to_acc_id) ==
    IF type \in {"Expense", "Virtual Expense"}
        THEN update_balance(db, from_acc_id, -amount)
    ELSE IF type \in {"Income", "Virtual Funding"}
        THEN update_balance(db, to_acc_id, amount)
    ELSE IF type = "Increase Loan"
        THEN update_balance(db, to_acc_id, -amount)
    ELSE IF type = "Transfer"
        THEN Then(update_balance(db, from_acc_id, -amount), to_acc_id, amount)
    ELSE db

\* add_transaction(date, amount, description, type, from_acc_id, to_acc_id,
\*                 category, remark): the row is inserted, then the balances move
add_transaction(db, date, amount, type, from_acc_id, to_acc_id, remark) ==
    LET row == [id |-> db.nextTxId, date |-> date, amount |-> amount,
                description |-> NoRemark,
                type |-> type, from_account_id |-> from_acc_id,
                to_account_id |-> to_acc_id, remark |-> remark]
        ins == [db EXCEPT !.transactions = @ \cup {row}, !.nextTxId = @ + 1]
    IN  ApplyEffect(ins, amount, type, from_acc_id, to_acc_id)

\* process_transaction(...): a date after today goes to the schedule
\* process_transaction that also puts off an entry dated today
process_transaction_today_deferred(db, now, tx_date, amount, t_type, from_acc_id, to_acc_id, remark) ==
    IF DateLE(now, tx_date)
    THEN [db EXCEPT
            !.schedule = @ \cup {[id |-> db.nextSchedId, amount |-> amount,
                                  description |-> remark,
                                  type |-> t_type,
                                  from_account_id |-> from_acc_id,
                                  to_account_id |-> to_acc_id,
                                  frequency |-> "One-Time",
                                  next_run_date |-> tx_date,
                                  is_manual |-> FALSE]},
            !.nextSchedId = @ + 1]
    ELSE add_transaction(db, tx_date, amount, t_type, from_acc_id, to_acc_id, remark)

\* process_transaction that puts nothing off
process_transaction_all_today(db, now, tx_date, amount, t_type, from_acc_id, to_acc_id, remark) ==
    add_transaction(db, tx_date, amount, t_type, from_acc_id, to_acc_id, remark)

process_transaction(db, now, tx_date, amount, t_type, from_acc_id, to_acc_id, remark) ==
    IF DateLT(now, tx_date)
    THEN [db EXCEPT
            !.schedule = @ \cup {[id |-> db.nextSchedId, amount |-> amount,
                                  description |-> remark,  \* desc_with_rem
                                  type |-> t_type,
                                  from_account_id |-> from_acc_id,
                                  to_account_id |-> to_acc_id,
                                  frequency |-> "One-Time",
                                  next_run_date |-> tx_date,
                                  is_manual |-> FALSE]},
            !.nextSchedId = @ + 1]
    ELSE add_transaction(db, tx_date, amount, t_type, from_acc_id, to_acc_id, remark)

\* the "[Batch:...]" marker found in a remark: the first one, or NULL
BatchIdOf(remark) == IF Len(remark) > 0 THEN remark[1] ELSE NULL

\* remark ILIKE '%[Batch:n]%'
RemarkHas(remark, batch_id) == \E i \in 1..Len(remark) : remark[i] = batch_id

\* ToDelete that does not look for the other rows of the batch
ToDelete_one(txs, tx) == {tx}

\* the rows delete_transaction will reverse for the row tx
ToDelete(txs, tx) ==
    IF BatchIdOf(tx.remark) # NULL
    THEN {t \in txs : RemarkHas(t.remark, BatchIdOf(tx.remark))}
    ELSE {tx}

\* ReverseEffect that gives a Transfer back to the from-account only
ReverseEffect_transfer_half(db, t) ==
    IF t.type \in {"Expense", "Virtual Expense", "Transfer"}
        THEN update_balance(db, t.from_account_id, t.amount)
    ELSE IF t.type \in {"Income", "Virtual Funding"}
        THEN update_balance(db, t.to_account_id, -t.amount)
    ELSE IF t.type = "Increase Loan"
        THEN update_balance(db, t.to_account_id, t.amount)
    ELSE db

\* the inverse balance updates of delete_transaction, by type
ReverseEffect(db, t) ==
    IF t.type \in {"Expense", "Virtual Expense"}
        THEN update_balance(db, t.from_account_id, t.amount)
    ELSE IF t.type \in {"Income", "Virtual Funding"}
        THEN update_balance(db, t.to_account_id, -t.amount)
    ELSE IF t.type = "Increase Loan"
        THEN update_balance(db, t.to_account_id, t.amount)
    ELSE IF t.type = "Transfer"
        THEN Then(update_balance(db, t.from_account_id, t.amount),
                  t.to_account_id, -t.amount)
    ELSE db

\* the loop 'for t in to_delete' over the rows in the order the query gave
RECURSIVE ReverseRows(_, _)
ReverseRows(db, rows) ==
    IF rows = <<>> \/ db.raised THEN db
    ELSE LET t == Head(rows)
             r == ReverseEffect(db, t)
         IN  IF r.raised THEN r
             ELSE ReverseRows([r EXCEPT !.transactions =
                                  {x \in @ : x.id # t.id}], Tail(rows))

\* the rows delete_transaction(tx_id) selects: none when the id is unknown
Selected(txs, tx_id) ==
    LET tx_data == {t \in txs : t.id = tx_id}
    IN  IF tx_data = {} THEN {}
        ELSE ToDelete(txs, CHOOSE t \in tx_data : TRUE)

\* delete_transaction that takes an unknown id for done
delete_transaction_silent(db, tx_id, to_delete) ==
    ReverseRows(db, to_delete)

\* delete_transaction(tx_id), to_delete being the selected rows in the order
\* the query returned them
delete_transaction(db, tx_id, to_delete) ==
    IF {t \in db.transactions : t.id = tx_id} = {}
    THEN [db EXCEPT !.found = FALSE]                        \* return False
    ELSE ReverseRows(db, to_delete)

\* every order in which a query may return the rows S
Orderings(S) ==
    {s \in [1..Cardinality(S) -> S] :
        \A i, j \in 1..Cardinality(S) : i # j => s[i] # s[j]}

----------------------------------------------------------------------------
(* Scheduler *)

\* NextRunDate that takes a month for thirty days
NextRunDate_thirty_days(freq, current_date) ==
    IF freq = "Daily" THEN timedelta(current_date, 1)
    ELSE IF freq = "Weekly" THEN timedelta(current_date, 7)
    ELSE IF freq = "Monthly" THEN timedelta(current_date, 30)
    ELSE IF freq = "Yearly" THEN relativedelta(current_date, 1, 0)
    ELSE current_date

\* NextRunDate that moves a Weekly entry by a fortnight
NextRunDate_fortnight(freq, current_date) ==
    IF freq = "Daily" THEN timedelta(current_date, 1)
    ELSE IF freq = "Weekly" THEN timedelta(current_date, 14)
    ELSE IF freq = "Monthly" THEN relativedelta(current_date, 0, 1)
    ELSE IF freq = "Yearly" THEN relativedelta(current_date, 1, 0)
    ELSE current_date

\* new_date of an entry, by frequency (not used for a One-Time entry)
NextRunDate(freq, current_date) ==
    IF freq = "Daily" THEN timedelta(current_date, 1)
    ELSE IF freq = "Weekly" THEN timedelta(current_date, 7)
    ELSE IF freq = "Monthly" THEN relativedelta(current_date, 0, 1)
    ELSE IF freq = "Yearly" THEN relativedelta(current_date, 1, 0)
    ELSE current_date

\* InferType that keeps the default for every item
InferType_default(item) == "Expense"

\* the type process_scheduled_transactions gives the transaction of an item
InferType(item) ==
    IF item.from_account_id # NULL /\ item.to_account_id # NULL THEN "Transfer"
    ELSE IF item.to_account_id # NULL /\ item.from_account_id = NULL THEN "Income"
    ELSE "Expense"

\* B. supabase.table('transactions').insert(new_txn)
InsertItem(db, item) ==
    LET new_txn == [id |-> db.nextTxId, date |-> item.next_run_date,
                    amount |-> item.amount, description |-> item.description,
                    type |-> InferType(item),
                    from_account_id |-> item.from_account_id,
                    to_account_id |-> item.to_account_id,
                    remark |-> NoRemark]
    IN  [db EXCEPT !.transactions = @ \cup {new_txn}, !.nextTxId = @ + 1]

\* D. delete().eq('id', item['id']) or update({next_run_date}).eq('id', ...)
UpdateSchedule(db, item) ==
    IF item.frequency = "One-Time"
    THEN [db EXCEPT !.schedule = {x \in @ : x.id # item.id}]
    ELSE [db EXCEPT !.schedule =
            {IF x.id = item.id
             THEN [x EXCEPT !.next_run_date =
                      NextRunDate(item.frequency, item.next_run_date)]
             ELSE x : x \in @}]

\* one pass of the loop 'for item in due_items'
ProcessItem(db, item) == UpdateSchedule(InsertItem(db, item), item)

RECURSIVE ProcessItems(_, _)
ProcessItems(db, items) ==
    IF items = <<>> THEN db
    ELSE ProcessItems(ProcessItem(db, Head(items)), Tail(items))

\* .lte('next_run_date', today_str)
DueItems(sched, now) == {x \in sched : DateLE(x.next_run_date, now)}

----------------------------------------------------------------------------
(* Inputs of the forms *)

\* the notes typed into the entry form: none, or a text holding "[Batch:1]"
UserRemarks == {NoRemark, <<1>>}

\* the date picked in the entry form: the first run day, or a later day
NowDates == {<<2024, 1, 31>>}
LaterDates == {<<2024, 2, 29>>}

\* the types of the entry form that make one transaction
EntryTypes == {"Expense", "Income", "Transfer", "Increase Loan"}

\* the amounts typed into the forms
OneAmount == {1}
Amounts == {1, 2}
SplitAmounts == {<<1, 2>>, <<2, 2>>}

\* frequency and start date picked in the schedule form
Plans == { <<"One-Time", <<2024, 1, 31>>>>, <<"Daily", <<2024, 1, 29>>>>,
           <<"Weekly", <<2024, 1, 29>>>>,   <<"Monthly", <<2024, 1, 31>>>>,
           <<"Yearly", <<2024, 2, 29>>>> }

OpeningBalance(id) == 10 * id

NoAccounts == [id \in {} |-> [balance |-> 0]]

\* the browser sessions; each runs the script in a thread of its own
Sessions == {1, 2}

\* tx of a script run that has selected no transaction
NoRow == [id |-> NULL]

\* a session between two script runs: no local variable is left
Idle == [pc |-> "idle", due_items |-> <<>>, item |-> NULL,
         ops |-> <<>>, read |-> NULL, tx |-> NoRow,
         funded_account_ids |-> {}, accs |-> <<>>]

\* a remark without a [Term:n] tag
NoTerm == -1

\* an account row that is no sinking fund
NoFund == [type |-> "Bank", auto |-> FALSE, term |-> NoTerm, goal_amount |-> 0]

\* goal_date of a row without a target date
NoDate == <<0, 0, 0>>

\* the columns of an account row as the account editor fills them in
\* (src/app.py:205-215): currency 'SGD', rate 1.0, both boxes ticked, no date
NoColumns == [currency |-> "SGD", manual_exchange_rate |-> 1,
              include_net_worth |-> TRUE, is_active |-> TRUE,
              goal_date |-> NoDate]

\* a page that shows none of the figures below
NoPage == [menu |-> "None"]

\* the record of a call: what was called (op), how it ended (result), the
\* transaction id or batch stamp it was given (id), the ids of the rows it
\* inserted (new), the number of legs, rows or items it worked on (count),
\* the accounts before it (before)
Last(op, result, id, new, count) ==
    [op |-> op, result |-> result, id |-> id, new |-> new, count |-> count,
     before |-> accounts]

Init ==
    /\ accounts = [id \in AccountIds |-> [balance |-> OpeningBalance(id)]]
    /\ transactions = {}
    /\ schedule = {}
    /\ nextTxId = 1
    /\ nextSchedId = 1
    /\ today = Today0
    /\ clock = 1
    /\ opening = [id \in AccountIds |-> OpeningBalance(id)]
    /\ legsOf = <<>>
    /\ funds = [id \in AccountIds |-> NoFund]
    /\ session = [s \in Sessions |-> Idle]
    /\ executed = {}
    /\ columns = [id \in AccountIds |-> NoColumns]
    /\ page = NoPage
    /\ last = [op |-> "init", result |-> "ok", id |-> 0, new |-> {},
               count |-> 0, before |-> NoAccounts]

NewIds(db) == {t.id : t \in db.transactions \ transactions}

\* the tables after a call that returned or raised; batch tells whether the
\* rows it inserted are the legs of one submit of the entry form
Commit(db, batch) ==
    /\ db.nextTxId <= MaxTx + 1
    /\ db.nextSchedId = nextSchedId \/ db.nextSchedId <= MaxSched + 1
    /\ \A id \in DOMAIN db.accounts :
          /\ db.accounts[id].balance <= opening[id] + MaxSwing
          /\ db.accounts[id].balance >= opening[id] - MaxSwing
    /\ accounts' = db.accounts
    /\ transactions' = db.transactions
    /\ schedule' = db.schedule
    /\ nextTxId' = db.nextTxId
    /\ nextSchedId' = db.nextSchedId
    /\ legsOf' = [i \in {t.id : t \in db.transactions} |->
                    IF i \in DOMAIN legsOf THEN legsOf[i]
                    ELSE IF batch THEN NewIds(db) ELSE {i}]

Outcome(db) ==
    IF db.raised THEN "raised"
    ELSE IF ~db.found THEN "not_found"
    ELSE IF db.nextSchedId > nextSchedId THEN "scheduled" ELSE "ok"

----------------------------------------------------------------------------
(* Entry form: one call of process_transaction *)

SubmitSingle(types, amounts, dates, remarks) ==
    \E t_type \in types,
       f \in AccountIds, t \in AccountIds, amt \in amounts,
       tx_date \in dates, remark \in remarks :
        LET f_id == IF t_type \in {"Expense", "Transfer"} THEN f ELSE NULL
            t_id == IF t_type = "Expense" THEN NULL ELSE t
            r == process_transaction(DB, today, tx_date, amt, t_type,
                                     f_id, t_id, remark)
        IN  /\ Commit(r, FALSE)
            /\ last' = Last("entry", Outcome(r), 0, NewIds(r), 1)
            /\ UNCHANGED <<today, clock, opening, others>>

(* Entry form: several calls of process_transaction under one batch id *)

RECURSIVE RunLegs(_, _, _, _)
RunLegs(db, now, tx_date, legs) ==
    IF legs = <<>> \/ db.raised THEN db
    ELSE LET g == Head(legs)
         IN  RunLegs(process_transaction(db, now, tx_date, g.amount, g.type,
                                         g.from, g.to, g.remark),
                     now, tx_date, Tail(legs))

Leg(amount, type, from, to, remark) ==
    [amount |-> amount, type |-> type, from |-> from, to |-> to,
     remark |-> remark]

\* a leg is sent only 'if amount > 0'
Sent(legs) == SelectSeq(legs, LAMBDA g : g.amount > 0)

\* batch_id = f" [Batch:{int(time.time() * 1000)}]"
SubmitBatch(tx_date, legs) ==
    \E ms \in {clock, clock + 1} :
        LET r == RunLegs(DB, today, tx_date, Sent(legs[ms]))
        IN  /\ ms <= MaxBatch
            /\ Commit(r, TRUE)
            /\ clock' = ms
            /\ last' = Last("batch", Outcome(r), ms, NewIds(r), Len(Sent(legs[ms])))
            /\ UNCHANGED <<today, opening, others>>

SubmitSplit(amounts, dates, remarks) ==
    \E acc1 \in AccountIds, acc2 \in AccountIds, amts \in amounts,
       tx_date \in dates, remark \in remarks :
        LET legs == [ms \in {clock, clock + 1} |->
              << Leg(amts[1], "Expense", acc1, NULL, remark \o <<ms>>),
                 Leg(amts[2], "Expense", acc2, NULL, remark \o <<ms>>) >> ]
        IN  SubmitBatch(tx_date, legs)

SubmitCustodialExpense(amounts, dates) ==
    \E cust_acc \in AccountIds, bank_acc \in AccountIds, amt \in amounts,
       amt_bank \in {0} \cup amounts, tx_date \in dates :
        LET legs == [ms \in {clock, clock + 1} |->
              << Leg(amt_bank, "Expense", bank_acc, NULL, <<ms>>),
                 Leg(amt, "Virtual Expense", cust_acc, NULL, <<ms>>) >> ]
        IN  /\ cust_acc # bank_acc
            /\ SubmitBatch(tx_date, legs)

SubmitSinkingFundExpense(amounts, dates) ==
    \E sf_acc \in AccountIds, bank_acc \in AccountIds, amt \in amounts,
       tx_date \in dates :
        LET legs == [ms \in {clock, clock + 1} |->
              << Leg(amt, "Expense", bank_acc, NULL, <<ms>>),
                 Leg(amt, "Virtual Expense", sf_acc, NULL, <<ms>>) >> ]
        IN  /\ sf_acc # bank_acc
            /\ SubmitBatch(tx_date, legs)

SubmitCustodialIn(amounts, dates) ==
    \E cust_acc \in AccountIds, bank_acc \in AccountIds, amt \in amounts,
       tx_date \in dates :
        LET legs == [ms \in {clock, clock + 1} |->
              << Leg(amt, "Income", NULL, bank_acc, <<ms>>),
                 Leg(amt, "Virtual Funding", NULL, cust_acc, <<ms>>) >> ]
        IN  /\ cust_acc # bank_acc
            /\ SubmitBatch(tx_date, legs)

----------------------------------------------------------------------------
(* Statement page: delete_transaction(tx_id) *)

DeleteTransaction ==
    \E tx_id \in 1..MaxTx :
        \E to_delete \in Orderings(Selected(transactions, tx_id)) :
            LET r == delete_transaction(DB, tx_id, to_delete)
            IN  /\ Commit(r, FALSE)
                /\ last' = Last("delete_transaction", Outcome(r), tx_id, {},
                                Cardinality(transactions \ r.transactions))
                /\ UNCHANGED <<today, clock, opening, others>>

----------------------------------------------------------------------------
(* Every run of the script: process_scheduled_transactions() *)

ProcessScheduled ==
    \E due_items \in Orderings(DueItems(schedule, today)) :
        LET r == ProcessItems(DB, due_items)
        IN  /\ Commit(r, FALSE)
            /\ last' = Last("process_scheduled", "ok", 0, NewIds(r), Len(due_items))
            /\ UNCHANGED <<today, clock, opening, others>>

(* Schedule page: new_schedule_form *)

NewSchedule(amounts, plans) ==
    \E new_amount \in amounts, plan \in plans,
       new_from_acc \in AccountIds, new_to_acc \in {NULL} \cup AccountIds :
        /\ nextSchedId <= MaxSched
        /\ schedule' = schedule \cup
              {[id |-> nextSchedId, amount |-> new_amount,
                description |-> NoRemark, type |-> NoType,
                from_account_id |-> new_from_acc, to_account_id |-> new_to_acc,
                frequency |-> plan[1], next_run_date |-> plan[2],
                is_manual |-> TRUE]}
        /\ nextSchedId' = nextSchedId + 1
        /\ last' = Last("new_schedule", "ok", 0, {}, 0)
        /\ UNCHANGED <<accounts, transactions, nextTxId, today, clock, opening,
                       legsOf, others>>

(* Settings page: apply_editor_changes('accounts', ...) with deleted rows *)

DeleteAccounts ==
    \E deleted_rows \in (SUBSET DOMAIN accounts) \ {{}} :
        /\ accounts' = [id \in DOMAIN accounts \ deleted_rows |-> accounts[id]]
        /\ last' = Last("apply_editor_changes", "ok", 0, {}, 0)
        /\ UNCHANGED <<transactions, schedule, nextTxId, nextSchedId, today,
                       clock, opening, legsOf, others>>

(* Every new session: run_auto_funder() *)

\* today.replace(day=1)
FirstOfMonth(d) == <<d[1], d[2], 1>>

\* funded_account_ids, or [] when the select raises
FundedIds(txs, first_str, query_ok) ==
    IF query_ok
    THEN {t.to_account_id :
            t \in {u \in txs : u.type = "Virtual Funding"
                                /\ DateLE(first_str, u.date)}}
    ELSE {}

\* term = max(1, int(tag)) if the remark has a [Term:n] tag else 12
Term(f) == IF f.term = NoTerm THEN 12 ELSE IF f.term < 1 THEN 1 ELSE f.term

\* MonthlyContrib without the cut at the goal
MonthlyContrib_uncapped(f, balance) == f.goal_amount \div Term(f)

\* monthly_contrib = goal_amount / term, cut down to goal_amount - balance;
\* the goals and terms of the model divide without remainder
MonthlyContrib(f, balance) ==
    LET monthly_contrib == f.goal_amount \div Term(f)
    IN  IF balance + monthly_contrib > f.goal_amount
        THEN f.goal_amount - balance
        ELSE monthly_contrib

\* one pass of the loop 'for acc in accounts'; acc is the row as selected
\* before the loop
FundAccount(db, now, acc, funded_account_ids) ==
    LET f == funds[acc.id]
    IN  IF acc.id \in funded_account_ids THEN db
        ELSE IF ~f.auto THEN db
        ELSE IF f.goal_amount <= 0 \/ acc.balance >= f.goal_amount THEN db
        ELSE IF MonthlyContrib(f, acc.balance) > 0
             THEN add_transaction(db, now, MonthlyContrib(f, acc.balance),
                                  "Virtual Funding", NULL, acc.id, NoRemark)
             ELSE db

RECURSIVE FundAccounts(_, _, _, _)
FundAccounts(db, now, accs, funded_account_ids) ==
    IF accs = <<>> \/ db.raised THEN db
    ELSE FundAccounts(FundAccount(db, now, Head(accs), funded_account_ids),
                      now, Tail(accs), funded_account_ids)

run_auto_funder(db, now, query_ok, accs) ==
    FundAccounts(db, now, accs,
                 FundedIds(db.transactions, FirstOfMonth(now), query_ok))

\* the rows of .eq('type', 'Sinking Fund')
SinkingFunds == {id \in DOMAIN accounts : funds[id].type = "Sinking Fund"}

AutoFund ==
    \E query_ok \in BOOLEAN, order \in Orderings(SinkingFunds) :
        LET accs == [i \in DOMAIN order |->
                        [id |-> order[i], balance |-> accounts[order[i]].balance]]
            r == run_auto_funder(DB, today, query_ok, accs)
        IN  /\ Commit(r, FALSE)
            /\ last' = Last("auto_fund",
                            IF query_ok THEN Outcome(r) ELSE "select_raised",
                            0, NewIds(r), Len(accs))
            /\ UNCHANGED <<today, clock, opening, others>>

(* Sinking fund page: 'Submit Funding' with the amount the page proposes *)

ManualFunding ==
    \E id \in SinkingFunds :
        LET f == funds[id]
            balance == accounts[id].balance
            monthly_contrib == f.goal_amount \div Term(f)
            default_fund == IF monthly_contrib < f.goal_amount - balance
                            THEN monthly_contrib ELSE f.goal_amount - balance
            r == add_transaction(DB, today, default_fund, "Virtual Funding",
                                 NULL, id, NoRemark)
        IN  /\ ~f.auto /\ monthly_contrib > 0 /\ balance < f.goal_amount
            /\ Commit(r, FALSE)
            /\ last' = Last("manual_funding", Outcome(r), 0, NewIds(r), 1)
            /\ UNCHANGED <<today, clock, opening, others>>

(* Sinking fund page: 'Save Settings' with the auto-funding box changed *)

SaveSettings ==
    \E id \in SinkingFunds :
        /\ funds' = [funds EXCEPT ![id].auto = ~@]
        /\ last' = Last("save_settings", "ok", id, {}, 0)
        /\ UNCHANGED <<accounts, transactions, schedule, nextTxId, nextSchedId,
                       today, clock, opening, legsOf, session, executed,
                       shown>>

(* The calendar day changes *)

AdvanceDay ==
    \E d \in RunDays :
        /\ DateLT(today, d)
        /\ today' = d
        /\ last' = Last("advance_day", "ok", 0, {}, 0)
        /\ UNCHANGED <<accounts, transactions, schedule, nextTxId, nextSchedId,
                       clock, opening, legsOf, others>>

----------------------------------------------------------------------------
(* process_scheduled_transactions() request by request: the select of the  *)
(* due rows, then for each item the insert and the update or delete of its *)
(* schedule row.  Another session's requests may come in between.          *)

\* schedule rows due on the day of the runs, once
TodayPlans == {<<"One-Time", <<2024, 1, 31>>>>, <<"Monthly", <<2024, 1, 31>>>>}

\* due_items = response.data; 'if not due_items: return'
FetchDue(s) ==
    \E due_items \in Orderings(DueItems(schedule, today)) :
        /\ session[s].pc = "idle"
        /\ due_items # <<>>
        /\ session' = [session EXCEPT ![s] =
              [Idle EXCEPT !.pc = "insert", !.item = Head(due_items),
                           !.due_items = Tail(due_items)]]
        /\ last' = Last("fetch_due", "ok", s, {}, Len(due_items))
        /\ UNCHANGED <<accounts, transactions, schedule, nextTxId, nextSchedId,
                       today, clock, opening, legsOf, funds, shown, executed>>

\* supabase.table('transactions').insert(new_txn).execute()
InsertDue(s) ==
    LET item == session[s].item
        r == InsertItem(DB, item)
    IN  /\ session[s].pc = "insert"
        /\ Commit(r, FALSE)
        /\ executed' = executed \cup {<<item.id, item.next_run_date, nextTxId>>}
        /\ session' = [session EXCEPT ![s].pc = "update"]
        /\ last' = Last("insert_due", "ok", s, NewIds(r), 1)
        /\ UNCHANGED <<today, clock, opening, funds, shown>>

\* the delete or update of the schedule row, then the next item of the loop
UpdateDue(s) ==
    LET item == session[s].item
        r == UpdateSchedule(DB, item)
        rest == session[s].due_items
    IN  /\ session[s].pc = "update"
        /\ Commit(r, FALSE)
        /\ session' = [session EXCEPT ![s] =
              IF rest = <<>> THEN [@ EXCEPT !.pc = "idle"]
              ELSE [@ EXCEPT !.pc = "insert", !.item = Head(rest),
                             !.due_items = Tail(rest)]]
        /\ last' = Last("update_due", "ok", s, {}, 1)
        /\ UNCHANGED <<today, clock, opening, funds, shown, executed>>

\* the process stops in the middle of a run; the next run starts afresh
Stop(s) ==
    /\ session[s].pc \in {"insert", "update"}
    /\ session' = [session EXCEPT ![s] = Idle]
    /\ last' = Last("stop", "ok", s, {}, 0)
    /\ UNCHANGED <<accounts, transactions, schedule, nextTxId, nextSchedId,
                   today, clock, opening, legsOf, funds, shown, executed>>

----------------------------------------------------------------------------
(* add_transaction and delete_transaction request by request: the insert,  *)
(* then for each update_balance call the select of the balance and the     *)
(* update, for a reversal the delete of each row after its updates.        *)

\* an update_balance call or a delete of a row that a session has yet to make
UpdateCall(account_id, amount_change) ==
    [kind |-> "update_balance", account_id |-> account_id,
     amount_change |-> amount_change, id |-> NULL]

DeleteCall(id) ==
    [kind |-> "delete", account_id |-> NULL, amount_change |-> 0, id |-> id]

\* the update_balance calls of add_transaction, by type
ApplyCalls(amount, type, from_acc_id, to_acc_id) ==
    IF type \in {"Expense", "Virtual Expense"}
        THEN <<UpdateCall(from_acc_id, -amount)>>
    ELSE IF type \in {"Income", "Virtual Funding"}
        THEN <<UpdateCall(to_acc_id, amount)>>
    ELSE IF type = "Increase Loan"
        THEN <<UpdateCall(to_acc_id, -amount)>>
    ELSE IF type = "Transfer"
        THEN <<UpdateCall(from_acc_id, -amount), UpdateCall(to_acc_id, amount)>>
    ELSE <<>>

\* the update_balance calls of delete_transaction for the row t, by type
ReverseCalls(t) ==
    IF t.type \in {"Expense", "Virtual Expense"}
        THEN <<UpdateCall(t.from_account_id, t.amount)>>
    ELSE IF t.type \in {"Income", "Virtual Funding"}
        THEN <<UpdateCall(t.to_account_id, -t.amount)>>
    ELSE IF t.type = "Increase Loan"
        THEN <<UpdateCall(t.to_account_id, t.amount)>>
    ELSE IF t.type = "Transfer"
        THEN <<UpdateCall(t.from_account_id, t.amount),
               UpdateCall(t.to_account_id, -t.amount)>>
    ELSE <<>>

\* the calls of the loop 'for t in to_delete'
RECURSIVE DeleteCalls(_)
DeleteCalls(rows) ==
    IF rows = <<>> THEN <<>>
    ELSE ReverseCalls(Head(rows)) \o <<DeleteCall(Head(rows).id)>>
            \o DeleteCalls(Tail(rows))

\* the session goes on with the calls ops, or is done when none is left
Continue(s, ops) ==
    [session EXCEPT ![s] =
        IF ops # <<>>
            THEN [Idle EXCEPT !.pc = "call", !.ops = ops,
                              !.funded_account_ids = session[s].funded_account_ids,
                              !.accs = session[s].accs]
        ELSE IF session[s].accs # <<>>
            THEN [Idle EXCEPT !.pc = "loop",
                              !.funded_account_ids = session[s].funded_account_ids,
                              !.accs = session[s].accs]
        ELSE Idle]

\* add_transaction: the insert of the row
BeginApply(s, types, amounts) ==
    \E type \in types, a \in AccountIds, amount \in amounts :
        LET from_acc_id == IF type = "Expense" THEN a ELSE NULL
            to_acc_id == IF type = "Expense" THEN NULL ELSE a
            row == [id |-> nextTxId, date |-> today, amount |-> amount,
                    description |-> NoRemark, type |-> type,
                    from_account_id |-> from_acc_id,
                    to_account_id |-> to_acc_id, remark |-> NoRemark]
        IN  /\ session[s].pc = "idle"
            /\ nextTxId <= MaxTx
            /\ transactions' = transactions \cup {row}
            /\ nextTxId' = nextTxId + 1
            /\ legsOf' = [i \in DOMAIN legsOf \cup {nextTxId} |->
                             IF i = nextTxId THEN {i} ELSE legsOf[i]]
            /\ session' = Continue(s, ApplyCalls(amount, type, from_acc_id,
                                                 to_acc_id))
            /\ last' = Last("begin_apply", "ok", s, {nextTxId}, 1)
            /\ UNCHANGED <<accounts, schedule, nextSchedId, today, clock,
                           opening, funds, shown, executed>>

\* delete_transaction: the selects of the row and of the rows of its batch
BeginReverse(s) ==
    \E tx_id \in 1..MaxTx :
        \E to_delete \in Orderings(Selected(transactions, tx_id)) :
            /\ session[s].pc = "idle"
            /\ to_delete # <<>>
            /\ session' = Continue(s, DeleteCalls(to_delete))
            /\ last' = Last("begin_reverse", "ok", s, {}, Len(to_delete))
            /\ UNCHANGED <<accounts, transactions, schedule, nextTxId,
                           nextSchedId, today, clock, opening, legsOf, funds, shown,
                           executed>>

\* update_balance: 'if not account_id: return', else the select of the balance
ReadBalance(s) ==
    LET call == Head(session[s].ops)
    IN  /\ session[s].pc = "call"
        /\ call.kind = "update_balance"
        /\ session' =
              IF call.account_id = NULL THEN Continue(s, Tail(session[s].ops))
              ELSE IF call.account_id \notin DOMAIN accounts
                  THEN [session EXCEPT ![s] = Idle]
              ELSE [session EXCEPT ![s].pc = "write",
                                   ![s].read = accounts[call.account_id].balance]
        /\ last' = Last("read_balance", "ok", s, {}, 0)
        /\ UNCHANGED <<accounts, transactions, schedule, nextTxId, nextSchedId,
                       today, clock, opening, legsOf, funds, shown, executed>>

\* update_balance: the update with new_bal = float(curr) + float(amount_change)
WriteBalance(s) ==
    LET call == Head(session[s].ops)
        new_bal == session[s].read + call.amount_change
    IN  /\ session[s].pc = "write"
        /\ new_bal <= opening[call.account_id] + MaxSwing
        /\ new_bal >= opening[call.account_id] - MaxSwing
        /\ accounts' = [id \in DOMAIN accounts |->
                           IF id = call.account_id
                           THEN [accounts[id] EXCEPT !.balance = new_bal]
                           ELSE accounts[id]]
        /\ session' = Continue(s, Tail(session[s].ops))
        /\ last' = Last("write_balance", "ok", s, {}, 0)
        /\ UNCHANGED <<transactions, schedule, nextTxId, nextSchedId, today,
                       clock, opening, legsOf, funds, shown, executed>>

\* delete_transaction: supabase.table('transactions').delete().eq('id', ...)
DeleteRow(s) ==
    LET call == Head(session[s].ops)
    IN  /\ session[s].pc = "call"
        /\ call.kind = "delete"
        /\ transactions' = {t \in transactions : t.id # call.id}
        /\ legsOf' = [i \in DOMAIN legsOf \ {call.id} |-> legsOf[i]]
        /\ session' = Continue(s, Tail(session[s].ops))
        /\ last' = Last("delete_row", "ok", s, {}, 1)
        /\ UNCHANGED <<accounts, schedule, nextTxId, nextSchedId, today, clock,
                       opening, funds, shown, executed>>

----------------------------------------------------------------------------
(* The ledger with the account editor: entries, reversals and deleted      *)
(* account rows, whose ids the forms of a running session still offer      *)

Next ==
    \/ SubmitSingle(EntryTypes, OneAmount, NowDates, {NoRemark})
    \/ SubmitSplit({<<1, 1>>}, NowDates, {NoRemark})
    \/ SubmitCustodialExpense(OneAmount, NowDates)
    \/ SubmitSinkingFundExpense(OneAmount, NowDates)
    \/ SubmitCustodialIn(OneAmount, NowDates)
    \/ DeleteTransaction
    \/ DeleteAccounts

Spec == Init /\ [][Next]_vars

(* The ledger alone: entries dated today and reversals, on accounts that    *)
(* stay in the table                                                       *)

NextLedger ==
    \/ SubmitSingle(EntryTypes, Amounts, NowDates, {NoRemark})
    \/ SubmitSplit(SplitAmounts, NowDates, UserRemarks)
    \/ SubmitCustodialExpense(Amounts, NowDates)
    \/ SubmitSinkingFundExpense(Amounts, NowDates)
    \/ SubmitCustodialIn(Amounts, NowDates)
    \/ DeleteTransaction

LedgerSpec == Init /\ [][NextLedger]_vars

(* The scheduler: entries put off to a later day, schedule rows, runs *)

NextSched ==
    \/ SubmitSingle({"Increase Loan"}, OneAmount, LaterDates, {NoRemark})
    \/ NewSchedule(OneAmount, Plans)
    \/ ProcessScheduled
    \/ DeleteTransaction
    \/ AdvanceDay

SchedSpec == Init /\ [][NextSched]_vars

(* The entry form with dates before, on and after today *)

\* tx_date = c1.date_input("Date", datetime.today())
DeferDates == {<<2024, 1, 30>>, <<2024, 1, 31>>, <<2024, 2, 1>>}

NextDefer ==
    \/ SubmitSingle({"Expense", "Income"}, OneAmount, DeferDates, {NoRemark})
    \/ AdvanceDay

DeferSpec == Init /\ [][NextDefer]_vars

(* Monthly schedule rows at the ends of months *)

MonthlyPlans ==
    {<<"Monthly", d>> : d \in {<<2023, 1, 31>>, <<2023, 3, 31>>, <<2023, 12, 31>>,
                               <<2024, 1, 30>>, <<2024, 1, 31>>}}

NextMonthly ==
    \/ NewSchedule(OneAmount, MonthlyPlans)
    \/ ProcessScheduled
    \/ AdvanceDay

MonthlySpec == Init /\ [][NextMonthly]_vars

(* Schedule rows whose account row is deleted in the account editor *)

NextOrphan ==
    \/ NewSchedule(OneAmount, TodayPlans)
    \/ DeleteAccounts
    \/ ProcessScheduled

OrphanSpec == Init /\ [][NextOrphan]_vars

(* The sinking funds: automatic and manual funding over two months *)

\* rows of 'accounts' as the account editor and the settings can make them
FundRows ==
    { [balance |-> 10, fund |-> NoFund],
      [balance |-> 0,
       fund |-> [type |-> "Sinking Fund", auto |-> TRUE, term |-> 2, goal_amount |-> 4]],
      [balance |-> 9,
       fund |-> [type |-> "Sinking Fund", auto |-> TRUE, term |-> NoTerm, goal_amount |-> 12]],
      [balance |-> 1,
       fund |-> [type |-> "Sinking Fund", auto |-> TRUE, term |-> 1, goal_amount |-> 3]],
      [balance |-> 0,
       fund |-> [type |-> "Sinking Fund", auto |-> FALSE, term |-> 2, goal_amount |-> 4]],
      [balance |-> 5,
       fund |-> [type |-> "Sinking Fund", auto |-> TRUE, term |-> 2, goal_amount |-> 4]],
      [balance |-> -1,
       fund |-> [type |-> "Sinking Fund", auto |-> TRUE, term |-> 1, goal_amount |-> 0]] }

InitFund ==
    /\ \E rows \in [AccountIds -> FundRows] :
          /\ accounts = [id \in AccountIds |-> [balance |-> rows[id].balance]]
          /\ opening = [id \in AccountIds |-> rows[id].balance]
          /\ funds = [id \in AccountIds |-> rows[id].fund]
    /\ transactions = {}
    /\ schedule = {}
    /\ nextTxId = 1
    /\ nextSchedId = 1
    /\ today = Today0
    /\ clock = 1
    /\ legsOf = <<>>
    /\ session = [s \in Sessions |-> Idle]
    /\ executed = {}
    /\ columns = [id \in AccountIds |-> NoColumns]
    /\ page = NoPage
    /\ last = [op |-> "init", result |-> "ok", id |-> 0, new |-> {},
               count |-> 0, before |-> NoAccounts]

NextFund ==
    \/ AutoFund
    \/ ManualFunding
    \/ SaveSettings
    \/ DeleteTransaction
    \/ AdvanceDay

FundSpec == InitFund /\ [][NextFund]_vars

(* Two sessions whose entries and reversals interleave *)

NextRace ==
    \/ \E s \in Sessions : BeginApply(s, {"Expense", "Income"}, OneAmount)
    \/ \E s \in Sessions : BeginReverse(s)
    \/ \E s \in Sessions : ReadBalance(s)
    \/ \E s \in Sessions : WriteBalance(s)
    \/ \E s \in Sessions : DeleteRow(s)

RaceSpec == Init /\ [][NextRace]_vars

(* Two sessions whose scheduler runs interleave *)

NextSessions ==
    \/ NewSchedule(OneAmount, TodayPlans)
    \/ \E s \in Sessions : FetchDue(s)
    \/ \E s \in Sessions : InsertDue(s)
    \/ \E s \in Sessions : UpdateDue(s)

SessionsSpec == Init /\ [][NextSessions]_vars

(* One session whose scheduler run may stop at any request *)

NextCrash ==
    \/ NewSchedule(OneAmount, TodayPlans)
    \/ FetchDue(1)
    \/ InsertDue(1)
    \/ UpdateDue(1)
    \/ Stop(1)

CrashSpec == Init /\ [][NextCrash]_vars

----------------------------------------------------------------------------
(* Overview page: the totals of the account types, net worth, liquid assets *)

\* options of the "Type" column of the account editor
AccountTypes == {"Bank", "Credit Card", "Custodial", "Sinking Fund", "Loan",
                 "Investment", "Receivable"}

\* the ids of the rows get_accounts(show_inactive) returns
get_accounts(show_inactive) ==
    {id \in DOMAIN accounts : show_inactive \/ columns[id].is_active}

\* df_calc = df_active[df_active['currency'] == 'SGD']
df_calc(df_active) == {id \in df_active : columns[id].currency = "SGD"}

\* df['balance'].sum()
RECURSIVE SumBalance(_)
SumBalance(df) ==
    IF df = {} THEN 0
    ELSE LET id == CHOOSE x \in df : TRUE
         IN  accounts[id].balance + SumBalance(df \ {id})

\* df_calc[df_calc['type'] == type]['balance'].sum()
TypeTotal(df, type) == SumBalance({id \in df : funds[id].type = type})

\* net_worth with the custodial total added
net_worth_custodial_added(bank_tot, cc_tot, custodial_tot, sf_tot, rec_tot) ==
    bank_tot - cc_tot + custodial_tot + sf_tot + rec_tot

net_worth(bank_tot, cc_tot, custodial_tot, sf_tot, rec_tot) ==
    bank_tot - cc_tot - custodial_tot + sf_tot + rec_tot

\* liquid with the sinking funds added
liquid_funds_added(bank_tot, cc_tot, custodial_tot, sf_tot) ==
    bank_tot - cc_tot - custodial_tot + sf_tot

liquid(bank_tot, cc_tot, custodial_tot, sf_tot) ==
    bank_tot - cc_tot - custodial_tot - sf_tot

\* the figures of the page "Overview"
Overview ==
    LET df == df_calc(get_accounts(FALSE))
        bank_tot == TypeTotal(df, "Bank")
        cc_tot == TypeTotal(df, "Credit Card")
        custodial_tot == TypeTotal(df, "Custodial")
        sf_tot == TypeTotal(df, "Sinking Fund")
        rec_tot == TypeTotal(df, "Receivable")
    IN  [menu |-> "Overview",
         bank_tot |-> bank_tot, cc_tot |-> cc_tot,
         custodial_tot |-> custodial_tot, sf_tot |-> sf_tot,
         rec_tot |-> rec_tot,
         net_worth |-> net_worth(bank_tot, cc_tot, custodial_tot, sf_tot, rec_tot),
         liquid |-> liquid(bank_tot, cc_tot, custodial_tot, sf_tot)]

ViewOverview ==
    /\ page' = Overview
    /\ last' = Last("overview", "ok", 0, {}, 0)
    /\ UNCHANGED <<accounts, transactions, schedule, nextTxId, nextSchedId,
                   today, clock, opening, legsOf, funds, session, executed,
                   columns>>

(* Settings page: apply_editor_changes('accounts', ...) with edited rows *)

\* the cells of one row changed in the editor
AccountEdits ==
    {[balance |-> 7], [is_active |-> FALSE], [is_active |-> TRUE],
     [include_net_worth |-> FALSE]}

EditAccounts ==
    \E row_id \in DOMAIN accounts, edits \in AccountEdits :
        /\ accounts' = IF "balance" \in DOMAIN edits
                       THEN [accounts EXCEPT ![row_id].balance = edits.balance]
                       ELSE accounts
        /\ columns' = [columns EXCEPT ![row_id] =
                         [c \in DOMAIN @ |->
                             IF c \in DOMAIN edits THEN edits[c] ELSE @[c]]]
        /\ last' = Last("apply_editor_changes", "ok", row_id, {}, 1)
        /\ UNCHANGED <<transactions, schedule, nextTxId, nextSchedId, today,
                       clock, opening, legsOf, funds, session, executed, page>>

(* The overview of accounts of every type, in two currencies *)

\* rows of 'accounts' as the account editor can make them
OverviewRows ==
    {[type |-> type, currency |-> currency, is_active |-> is_active,
      include_net_worth |-> include_net_worth] :
        type \in AccountTypes, currency \in {"SGD", "USD"},
        is_active \in BOOLEAN, include_net_worth \in BOOLEAN}

\* the rate the editor holds for a currency
RateOf(currency) == IF currency = "SGD" THEN 1 ELSE 2

InitOverview ==
    /\ accounts = [id \in AccountIds |-> [balance |-> OpeningBalance(id)]]
    /\ opening = [id \in AccountIds |-> OpeningBalance(id)]
    /\ \E rows \in [AccountIds -> OverviewRows] :
          /\ funds = [id \in AccountIds |->
                        [NoFund EXCEPT !.type = rows[id].type]]
          /\ columns = [id \in AccountIds |->
                          [currency |-> rows[id].currency,
                           manual_exchange_rate |-> RateOf(rows[id].currency),
                           include_net_worth |-> rows[id].include_net_worth,
                           is_active |-> rows[id].is_active,
                           goal_date |-> NoDate]]
    /\ transactions = {}
    /\ schedule = {}
    /\ nextTxId = 1
    /\ nextSchedId = 1
    /\ today = Today0
    /\ clock = 1
    /\ legsOf = <<>>
    /\ session = [s \in Sessions |-> Idle]
    /\ executed = {}
    /\ page = NoPage
    /\ last = [op |-> "init", result |-> "ok", id |-> 0, new |-> {},
               count |-> 0, before |-> NoAccounts]

NextOverview ==
    \/ ViewOverview
    \/ EditAccounts

OverviewSpec == InitOverview /\ [][NextOverview]_vars

----------------------------------------------------------------------------
(* Goals page: the card of each sinking fund *)

\* months_left = (goal_date.year - today.year) * 12
\*               + (goal_date.month - today.month)
months_left(goal_date, now) ==
    (goal_date[1] - now[1]) * 12 + (goal_date[2] - now[2])

\* months_elapsed without max(0, min(term, ...))
months_elapsed_unclamped(term, left) == (term - left) + 1

\* months_elapsed = (term - months_left) + 1, then max(0, min(term, ...))
months_elapsed(term, left) ==
    LET elapsed == (term - left) + 1
        capped == IF term < elapsed THEN term ELSE elapsed
    IN  IF capped < 0 THEN 0 ELSE capped

\* the card of row; monthly_contrib = goal_amount / term divides without
\* remainder for the goals and terms of the model
GoalCard(id) ==
    LET f == funds[id]
        balance == accounts[id].balance
        goal_date == columns[id].goal_date
        term == Term(f)
        monthly_contrib == f.goal_amount \div term
        expected_bal == IF goal_date # NoDate
                        THEN months_elapsed(term, months_left(goal_date, today))
                               * monthly_contrib
                        ELSE 0
    IN  [monthly_contrib |-> monthly_contrib,
         expected_bal |-> expected_bal,
         status |-> IF balance >= f.goal_amount /\ f.goal_amount > 0
                    THEN "Goal Reached"
                    ELSE IF balance < expected_bal THEN "Behind"
                    ELSE "On Track",
         behind_by |-> IF balance < expected_bal THEN expected_bal - balance
                       ELSE 0]

\* goals_raw = df_active[df_active['type'] == 'Sinking Fund']
goals_raw == {id \in get_accounts(FALSE) : funds[id].type = "Sinking Fund"}

ViewGoals ==
    /\ goals_raw # {}
    /\ page' = [menu |-> "Goals", cards |-> [id \in goals_raw |-> GoalCard(id)]]
    /\ last' = Last("goals", "ok", 0, {}, 0)
    /\ UNCHANGED <<accounts, transactions, schedule, nextTxId, nextSchedId,
                   today, clock, opening, legsOf, funds, session, executed,
                   columns>>

(* The goals page of funds with and without a target date, over two months *)

\* target dates: none, passed, this month, nine months and two years ahead
GoalDates == {NoDate, <<2023, 6, 15>>, <<2024, 1, 31>>, <<2024, 10, 15>>,
              <<2026, 1, 1>>}

\* sinking funds as the account editor and the settings can make them
GoalRows ==
    {[balance |-> balance, goal_date |-> goal_date,
      fund |-> [type |-> "Sinking Fund", auto |-> FALSE, term |-> term,
                goal_amount |-> goal_amount]] :
        balance \in {-5, 250, 1200}, goal_date \in GoalDates,
        term \in {NoTerm, 0, 1, 12}, goal_amount \in {0, 12, 1200}}

InitGoals ==
    /\ \E first \in {[balance |-> 10, goal_date |-> NoDate, fund |-> NoFund],
                     [balance |-> 250, goal_date |-> <<2024, 10, 15>>,
                      fund |-> [type |-> "Sinking Fund", auto |-> TRUE,
                                term |-> 12, goal_amount |-> 1200]]},
          second \in GoalRows :
          LET rows == <<first, second>>
          IN  /\ accounts = [id \in AccountIds |-> [balance |-> rows[id].balance]]
              /\ opening = [id \in AccountIds |-> rows[id].balance]
              /\ funds = [id \in AccountIds |-> rows[id].fund]
              /\ columns = [id \in AccountIds |->
                              [NoColumns EXCEPT !.goal_date = rows[id].goal_date]]
    /\ transactions = {}
    /\ schedule = {}
    /\ nextTxId = 1
    /\ nextSchedId = 1
    /\ today = Today0
    /\ clock = 1
    /\ legsOf = <<>>
    /\ session = [s \in Sessions |-> Idle]
    /\ executed = {}
    /\ page = NoPage
    /\ last = [op |-> "init", result |-> "ok", id |-> 0, new |-> {},
               count |-> 0, before |-> NoAccounts]

NextGoals ==
    \/ ViewGoals
    \/ SaveSettings
    \/ AdvanceDay

GoalsSpec == InitGoals /\ [][NextGoals]_vars

----------------------------------------------------------------------------
(* The account editor and the goal settings *)

NextEditor ==
    \/ EditAccounts
    \/ DeleteAccounts
    \/ SaveSettings

EditorSpec == InitFund /\ [][NextEditor]_vars

----------------------------------------------------------------------------
(* Overview page: the account statement, past transactions *)

\* .limit(50)
StatementLimit == 50

\* row a comes before row b under .order("date", desc).order("id", desc)
Before(a, b) == DateLT(b.date, a.date) \/ (a.date = b.date /\ a.id > b.id)

\* txs: the rows with from_account_id or to_account_id = sel_id, newest first
StatementRows(txs, sel_id) ==
    LET rows == {t \in txs : t.from_account_id = sel_id \/ t.to_account_id = sel_id}
        sorted == CHOOSE s \in Orderings(rows) :
                      \A i, j \in DOMAIN s : i < j => Before(s[i], s[j])
    IN  IF Len(sorted) <= StatementLimit THEN sorted
        ELSE SubSeq(sorted, 1, StatementLimit)

display_amt(row, sel_id) ==
    LET is_inflow == row.to_account_id = sel_id
    IN  IF row.type = "Transfer"
        THEN IF is_inflow THEN row.amount ELSE -row.amount
        ELSE IF row.type \in {"Expense", "Virtual Expense", "Increase Loan"}
             THEN -row.amount
             ELSE row.amount

\* the loop 'for row in txs'
RECURSIVE past_view(_, _, _)
past_view(txs, sel_id, temp_bal_bwd) ==
    IF txs = <<>> THEN <<>>
    ELSE LET row == Head(txs)
         IN  <<[id |-> row.id, date |-> row.date,
                amount |-> display_amt(row, sel_id),
                running_balance |-> temp_bal_bwd]>>
             \o past_view(Tail(txs), sel_id,
                          temp_bal_bwd - display_amt(row, sel_id))

\* sched_data: the rows of schedule with the account on either side and
\* next_run_date after today, in any order .order("next_run_date") allows
ScheduledRows(sched, sel_id, now) ==
    LET rows == {x \in sched :
                    /\ x.from_account_id = sel_id \/ x.to_account_id = sel_id
                    /\ DateLE(timedelta(now, 1), x.next_run_date)}
    IN  {s \in Orderings(rows) :
            \A i, j \in DOMAIN s :
                i < j => DateLE(s[i].next_run_date, s[j].next_run_date)}

\* impact of a row of schedule on the account, by row['type']
impact(row, sel_id) ==
    LET is_inflow == row.to_account_id = sel_id
    IN  IF row.type = "Transfer"
        THEN IF is_inflow THEN row.amount ELSE -row.amount
        ELSE IF row.type \in {"Expense", "Virtual Expense", "Increase Loan"}
             THEN -row.amount
             ELSE row.amount

\* the loop 'for row in sched_data'
RECURSIVE future_rows(_, _, _)
future_rows(sched_data, sel_id, temp_bal_fwd) ==
    IF sched_data = <<>> THEN <<>>
    ELSE LET row == Head(sched_data)
         IN  <<[id |-> row.id, date |-> row.next_run_date,
                amount |-> impact(row, sel_id),
                running_balance |-> temp_bal_fwd + impact(row, sel_id)]>>
             \o future_rows(Tail(sched_data), sel_id,
                            temp_bal_fwd + impact(row, sel_id))

\* future_view after future_view.reverse()
future_view(sched_data, sel_id, current_bal) ==
    LET rows == future_rows(sched_data, sel_id, current_bal)
    IN  [i \in 1..Len(rows) |-> rows[Len(rows) + 1 - i]]

ViewStatement ==
    \E sel_id \in get_accounts(FALSE) :
      \E sched_data \in ScheduledRows(schedule, sel_id, today) :
        LET current_bal == accounts[sel_id].balance
        IN  /\ page' = [menu |-> "Statement", sel_id |-> sel_id,
                        current_bal |-> current_bal,
                        future_view |-> future_view(sched_data, sel_id,
                                                    current_bal),
                        past_view |-> past_view(StatementRows(transactions, sel_id),
                                                sel_id, current_bal)]
            /\ last' = Last("statement", "ok", sel_id, {}, 0)
            /\ UNCHANGED <<accounts, transactions, schedule, nextTxId,
                           nextSchedId, today, clock, opening, legsOf, funds,
                           session, executed, columns>>

(* The statement of entries dated today and the day before *)

StatementDates == {<<2024, 1, 30>>, <<2024, 1, 31>>}

NextStatement ==
    \/ SubmitSingle(EntryTypes, OneAmount, StatementDates, {NoRemark})
    \/ DeleteTransaction
    \/ ViewStatement

StatementSpec == Init /\ [][NextStatement]_vars

----------------------------------------------------------------------------
(* Schedule page: edit_schedule_form *)

\* edit_amount: number_input("Amount", value=..., step=0.01), no min_value
EditAmounts == {-1, 0, 1}

EditSchedule(amounts, plans) ==
    \E selected_row \in schedule, edit_amount \in amounts, plan \in plans :
        /\ schedule' = {IF x.id = selected_row.id
                        THEN [x EXCEPT !.amount = edit_amount,
                                       !.frequency = plan[1],
                                       !.next_run_date = plan[2]]
                        ELSE x : x \in schedule}
        /\ last' = Last("edit_schedule", "ok", selected_row.id, {}, 0)
        /\ UNCHANGED <<accounts, transactions, nextTxId, nextSchedId, today,
                       clock, opening, legsOf, others>>

(* The ways a transaction is made: the entry form with its custodial legs, *)
(* entries put off to a later day, the schedule form and the scheduler,    *)
(* automatic funding                                                       *)

\* account 1 a bank account, account 2 an empty sinking fund with goal 4
InitPaths ==
    /\ InitFund
    /\ funds[1] = NoFund
    /\ funds[2].goal_amount = 4
    /\ funds[2].auto
    /\ accounts[2].balance = 0

NextPaths ==
    \/ SubmitSingle({"Increase Loan"}, OneAmount, NowDates, {NoRemark})
    \/ SubmitSingle({"Income"}, OneAmount, LaterDates, {NoRemark})
    \/ SubmitCustodialExpense(OneAmount, NowDates)
    \/ NewSchedule(OneAmount, {<<"One-Time", <<2024, 1, 31>>>>})
    \/ ProcessScheduled
    \/ AutoFund
    \/ AdvanceDay

PathsSpec == InitPaths /\ [][NextPaths]_vars

(* Schedule rows made and edited in the schedule forms, and their runs *)

NextEdited ==
    \/ NewSchedule(OneAmount, TodayPlans)
    \/ EditSchedule(EditAmounts, TodayPlans)
    \/ ProcessScheduled

EditedSpec == Init /\ [][NextEdited]_vars

----------------------------------------------------------------------------
(* The dates of the transactions: entries dated before, on and after today, *)
(* the scheduler, automatic and manual funding, over two months             *)

NextDates ==
    \/ SubmitSingle({"Expense"}, OneAmount, DeferDates \cup LaterDates, {NoRemark})
    \/ ProcessScheduled
    \/ AutoFund
    \/ ManualFunding
    \/ SaveSettings
    \/ AdvanceDay

DatesSpec == InitPaths /\ [][NextDates]_vars

----------------------------------------------------------------------------
(* delete_transaction(tx_id) request by request: the select of the row, the *)
(* select of the rows of its batch, then the balance updates and deletes.   *)

\* tx_data = select("*").eq('id', tx_id); 'if not tx_data: return False'
SelectTx(s) ==
    \E tx_id \in 1..MaxTx :
        LET tx_data == {t \in transactions : t.id = tx_id}
            tx == CHOOSE t \in tx_data : TRUE
        IN  /\ session[s].pc = "idle"
            /\ session' =
                  IF tx_data = {} THEN session
                  ELSE IF BatchIdOf(tx.remark) # NULL
                       THEN [session EXCEPT ![s] =
                               [Idle EXCEPT !.pc = "batch", !.tx = tx]]
                       ELSE Continue(s, DeleteCalls(<<tx>>))
            /\ last' = Last("select_tx",
                            IF tx_data = {} THEN "not_found" ELSE "running",
                            tx_id, {}, Cardinality(tx_data))
            /\ UNCHANGED <<accounts, transactions, schedule, nextTxId,
                           nextSchedId, today, clock, opening, legsOf, funds,
                           shown, executed>>

\* to_delete = select("*").ilike('remark', f'%{batch_id}%'); with no row the
\* loop has nothing to do and the function goes on to 'return True'
SelectBatch(s) ==
    /\ session[s].pc = "batch"
    /\ LET batch_id == BatchIdOf(session[s].tx.remark)
       IN  \E to_delete \in Orderings({t \in transactions :
                                          RemarkHas(t.remark, batch_id)}) :
               /\ session' = Continue(s, DeleteCalls(to_delete))
               /\ last' = Last("select_batch",
                               IF to_delete = <<>> THEN "ok" ELSE "running",
                               session[s].tx.id, {}, Len(to_delete))
               /\ UNCHANGED <<accounts, transactions, schedule, nextTxId,
                              nextSchedId, today, clock, opening, legsOf,
                              funds, shown, executed>>

(* One batch of two legs and two sessions that delete transactions *)

NextReverse ==
    \/ SubmitSinkingFundExpense(OneAmount, NowDates)
    \/ \E s \in Sessions : SelectTx(s)
    \/ \E s \in Sessions : SelectBatch(s)
    \/ \E s \in Sessions : ReadBalance(s)
    \/ \E s \in Sessions : WriteBalance(s)
    \/ \E s \in Sessions : DeleteRow(s)

ReverseSpec == Init /\ [][NextReverse]_vars

(* run_auto_funder request by request, in the sessions that open the app *)
(* in the same month                                                     *)

\* the select of this month's 'Virtual Funding' rows; [] when it raises
SelectFundings(s) ==
    \E query_ok \in BOOLEAN :
        /\ session[s].pc = "idle"
        /\ session' = [session EXCEPT ![s] =
              [Idle EXCEPT !.pc = "funded",
                           !.funded_account_ids =
                               FundedIds(transactions, FirstOfMonth(today),
                                         query_ok)]]
        /\ last' = Last("select_fundings",
                        IF query_ok THEN "ok" ELSE "select_raised", s, {}, 0)
        /\ UNCHANGED <<accounts, transactions, schedule, nextTxId, nextSchedId,
                       today, clock, opening, legsOf, funds, shown, executed>>

\* the select of the 'Sinking Fund' rows of accounts
SelectAccounts(s) ==
    /\ session[s].pc = "funded"
    /\ \E order \in Orderings(SinkingFunds) :
          LET accs == [i \in DOMAIN order |->
                          [id |-> order[i],
                           balance |-> accounts[order[i]].balance]]
          IN  /\ session' = [session EXCEPT ![s] =
                    IF accs = <<>> THEN Idle
                    ELSE [@ EXCEPT !.pc = "loop", !.accs = accs]]
              /\ last' = Last("select_accounts", "ok", s, {}, Len(accs))
    /\ UNCHANGED <<accounts, transactions, schedule, nextTxId, nextSchedId,
                   today, clock, opening, legsOf, funds, shown, executed>>

\* one pass of the loop 'for acc in accounts', up to the insert of
\* add_transaction; the update_balance call of the row is left to make
FundNext(s) ==
    /\ session[s].pc = "loop"
    /\ LET acc == Head(session[s].accs)
           f == funds[acc.id]
           monthly_contrib == MonthlyContrib(f, acc.balance)
           posts == /\ acc.id \notin session[s].funded_account_ids
                    /\ f.auto
                    /\ f.goal_amount > 0
                    /\ acc.balance < f.goal_amount
                    /\ monthly_contrib > 0
           row == [id |-> nextTxId, date |-> today, amount |-> monthly_contrib,
                   description |-> NoRemark, type |-> "Virtual Funding",
                   from_account_id |-> NULL, to_account_id |-> acc.id,
                   remark |-> NoRemark]
           rest == [session EXCEPT ![s].accs = Tail(@)]
       IN  IF posts
           THEN /\ nextTxId <= MaxTx
                /\ transactions' = transactions \cup {row}
                /\ nextTxId' = nextTxId + 1
                /\ legsOf' = [i \in DOMAIN legsOf \cup {nextTxId} |->
                                 IF i = nextTxId THEN {i} ELSE legsOf[i]]
                /\ session' = [rest EXCEPT ![s].pc = "call",
                                  ![s].ops = ApplyCalls(monthly_contrib,
                                                "Virtual Funding", NULL, acc.id)]
                /\ last' = Last("fund_next", "ok", s, {nextTxId}, 1)
           ELSE /\ session' = [rest EXCEPT ![s] =
                                  IF @.accs = <<>> THEN Idle ELSE @]
                /\ last' = Last("fund_next", "skipped", s, {}, 0)
                /\ UNCHANGED <<transactions, nextTxId, legsOf>>
    /\ UNCHANGED <<accounts, schedule, nextSchedId, today, clock, opening,
                   funds, shown, executed>>

NextFundRace ==
    \/ \E s \in Sessions : SelectFundings(s)
    \/ \E s \in Sessions : SelectAccounts(s)
    \/ \E s \in Sessions : FundNext(s)
    \/ \E s \in Sessions : ReadBalance(s)
    \/ \E s \in Sessions : WriteBalance(s)

FundRaceSpec == InitFund /\ [][NextFundRace]_vars

(* A batch of the entry form put off to a later day, then run by the *)
(* scheduler and reversed                                            *)

\* the tables before anything was entered
DB0 == [accounts |-> [id \in AccountIds |-> [balance |-> OpeningBalance(id)]],
        transactions |-> {}, schedule |-> {}, nextTxId |-> 1,
        nextSchedId |-> 1, raised |-> FALSE, found |-> TRUE]

\* the legs of the forms that send a batch, under the batch id 1
DeferredBatches ==
    { << Leg(1, "Expense", bank_acc, NULL, <<1>>),
         Leg(1, "Virtual Expense", sf_acc, NULL, <<1>>) >> :
        <<bank_acc, sf_acc>> \in {p \in AccountIds \X AccountIds : p[1] # p[2]} }
    \cup
    { << Leg(1, "Income", NULL, bank_acc, <<1>>),
         Leg(1, "Virtual Funding", NULL, cust_acc, <<1>>) >> :
        <<bank_acc, cust_acc>> \in {p \in AccountIds \X AccountIds : p[1] # p[2]} }
    \cup
    { << Leg(1, "Expense", acc1, NULL, remark \o <<1>>),
         Leg(1, "Expense", acc2, NULL, remark \o <<1>>) >> :
        <<acc1, acc2, remark>> \in AccountIds \X AccountIds \X UserRemarks }

\* the state after one of these forms was submitted with a later date: every
\* leg went through process_transaction and became a row of schedule
InitDeferred ==
    /\ \E legs \in DeferredBatches, tx_date \in LaterDates :
          LET r == RunLegs(DB0, Today0, tx_date, legs)
          IN  /\ accounts = r.accounts
              /\ transactions = r.transactions
              /\ schedule = r.schedule
              /\ nextTxId = r.nextTxId
              /\ nextSchedId = r.nextSchedId
    /\ today = Today0
    /\ clock = 1
    /\ opening = [id \in AccountIds |-> OpeningBalance(id)]
    /\ legsOf = <<>>
    /\ funds = [id \in AccountIds |-> NoFund]
    /\ session = [s \in Sessions |-> Idle]
    /\ executed = {}
    /\ columns = [id \in AccountIds |-> NoColumns]
    /\ page = NoPage
    /\ last = [op |-> "batch", result |-> "scheduled", id |-> 1, new |-> {},
               count |-> 2, before |-> DB0.accounts]

NextDeferred ==
    \/ AdvanceDay
    \/ ProcessScheduled
    \/ DeleteTransaction
    \/ SubmitSingle({"Expense", "Income"}, OneAmount, NowDates, {NoRemark})

DeferredSpec == InitDeferred /\ [][NextDeferred]_vars

(* The scheduler after days on which the app was not opened: a row of *)
(* schedule with run dates behind it, and the script run again and    *)
(* again on the same day                                              *)

\* frequency and next_run_date of a row the schedule form has made
CatchUpPlans ==
    { <<"One-Time", <<2024, 1, 31>>>>, <<"One-Time", <<2024, 2, 29>>>>,
      <<"Daily", <<2024, 1, 28>>>>,    <<"Daily", <<2024, 1, 29>>>>,
      <<"Daily", <<2024, 1, 30>>>>,    <<"Daily", <<2024, 1, 31>>>>,
      <<"Daily", <<2024, 2, 1>>>>,
      <<"Weekly", <<2024, 1, 10>>>>,   <<"Weekly", <<2024, 1, 17>>>>,
      <<"Weekly", <<2024, 1, 20>>>>,   <<"Weekly", <<2024, 1, 24>>>>,
      <<"Weekly", <<2024, 1, 31>>>>,   <<"Weekly", <<2024, 2, 7>>>>,
      <<"Monthly", <<2023, 10, 31>>>>, <<"Monthly", <<2023, 11, 30>>>>,
      <<"Monthly", <<2023, 12, 15>>>>, <<"Monthly", <<2023, 12, 31>>>>,
      <<"Monthly", <<2024, 1, 31>>>>,  <<"Monthly", <<2024, 2, 29>>>>,
      <<"Yearly", <<2021, 1, 31>>>>,   <<"Yearly", <<2022, 1, 31>>>>,
      <<"Yearly", <<2022, 2, 28>>>>,   <<"Yearly", <<2023, 1, 31>>>>,
      <<"Yearly", <<2024, 1, 31>>>>,   <<"Yearly", <<2024, 2, 29>>>> }

\* the runs the scheduler needs until a row of this plan is not due on the day now
RECURSIVE RunsUntilAhead(_, _, _)
RunsUntilAhead(freq, d, now) ==
    IF DateLT(now, d) THEN 0
    ELSE IF freq = "One-Time" THEN 1
    ELSE 1 + RunsUntilAhead(freq, NextRunDate(freq, d), now)

\* one row of the schedule form, with no more run dates behind it than the
\* transactions table of the model takes
InitCatchUp ==
    /\ \E plan \in CatchUpPlans, new_from_acc \in AccountIds,
          new_to_acc \in {NULL} \cup AccountIds :
          /\ RunsUntilAhead(plan[1], plan[2], Today0) <= MaxTx
          /\ schedule = {[id |-> 1, amount |-> 1, description |-> NoRemark,
                          type |-> NoType, from_account_id |-> new_from_acc,
                          to_account_id |-> new_to_acc, frequency |-> plan[1],
                          next_run_date |-> plan[2], is_manual |-> TRUE]}
    /\ accounts = [id \in AccountIds |-> [balance |-> OpeningBalance(id)]]
    /\ transactions = {}
    /\ nextTxId = 1
    /\ nextSchedId = 2
    /\ today = Today0
    /\ clock = 1
    /\ opening = [id \in AccountIds |-> OpeningBalance(id)]
    /\ legsOf = <<>>
    /\ funds = [id \in AccountIds |-> NoFund]
    /\ session = [s \in Sessions |-> Idle]
    /\ executed = {}
    /\ columns = [id \in AccountIds |-> NoColumns]
    /\ page = NoPage
    /\ last = [op |-> "new_schedule", result |-> "ok", id |-> 0, new |-> {},
               count |-> 0, before |-> NoAccounts]

CatchUpSpec == InitCatchUp /\ [][ProcessScheduled]_vars

\* the script runs on every interaction with the page, and
\* process_scheduled_transactions() is called on every run
CatchUpFairSpec == CatchUpSpec /\ WF_vars(ProcessScheduled)

(* The statement with rows of schedule still to come: rows of the schedule *)
(* form and entries of the entry form put off to a later day              *)

NextForecast ==
    \/ NewSchedule(OneAmount, {<<"One-Time", <<2024, 2, 29>>>>,
                               <<"Monthly", <<2024, 2, 29>>>>})
    \/ SubmitSingle({"Increase Loan"}, OneAmount, LaterDates, {NoRemark})
    \/ ViewStatement
    \/ AdvanceDay
    \/ ProcessScheduled

ForecastSpec == Init /\ [][NextForecast]_vars

----------------------------------------------------------------------------
(* What the specification says: the effect table, the round trip, the       *)
(* calendar steps.  None of this is used by the actions above.             *)

\* the sign the effect table gives transaction t on account a
TableEffect(t, a) ==
    (IF t.type \in {"Expense", "Virtual Expense", "Transfer"}
        /\ t.from_account_id = a THEN -t.amount ELSE 0)
    + (IF t.type \in {"Income", "Virtual Funding", "Transfer"}
          /\ t.to_account_id = a THEN t.amount ELSE 0)
    + (IF t.type = "Increase Loan" /\ t.to_account_id = a THEN -t.amount ELSE 0)

RECURSIVE SumEffects(_, _)
SumEffects(txs, a) ==
    IF txs = {} THEN 0
    ELSE LET t == CHOOSE x \in txs : TRUE
         IN  TableEffect(t, a) + SumEffects(txs \ {t}, a)

\* the accounts the effect table involves for t
Touched(t) == {a \in DOMAIN accounts : TableEffect([t EXCEPT !.amount = 1], a) # 0
                                       \/ (t.type = "Transfer"
                                           /\ t.from_account_id = a
                                           /\ t.to_account_id = a)}

Balanced ==
    \A a \in DOMAIN accounts :
        accounts[a].balance = opening[a] + SumEffects(transactions, a)

\* C1: after any sequence of entries, batches and reversals on accounts that
\* exist, every balance is the opening balance plus the signed effects of
\* the transactions now in the table.
C1_LedgerInvariant == Balanced

C1_Witness ==
    /\ last.op = "delete_transaction" /\ last.result = "ok"
    /\ transactions # {}
    /\ \E a \in DOMAIN accounts : accounts[a].balance # opening[a]

\* C2: an entry or batch that goes through adds one row per transaction sent
\* and moves every balance by the effect-table amount of the added rows:
\* Expense and Virtual Expense take the amount from the from-account, Income
\* and Virtual Funding add it to the to-account, Transfer does both, Increase
\* Loan takes it from the to-account; nothing else changes.
C2_ApplyPerEffectTable ==
    [][ (last'.op \in {"entry", "batch"} /\ last'.result = "ok") =>
          LET added == transactions' \ transactions
          IN  /\ transactions \subseteq transactions'
              /\ Cardinality(added) = last'.count
              /\ DOMAIN accounts' = DOMAIN accounts
              /\ \A a \in DOMAIN accounts :
                    accounts'[a].balance =
                        accounts[a].balance + SumEffects(added, a)
              /\ schedule' = schedule ]_vars

\* Scenario A: a Transfer between two accounts has taken the amount from one
\* and added it to the other
C2_Witness ==
    /\ last.op = "entry" /\ last.result = "ok"
    /\ \E t \in transactions :
          /\ t.id \in last.new /\ t.type = "Transfer" /\ t.amount = 2
          /\ t.from_account_id = 1 /\ t.to_account_id = 2
          /\ accounts[1].balance = last.before[1].balance - 2
          /\ accounts[2].balance = last.before[2].balance + 2

\* the rows the last entry or batch inserted
Created == {t \in transactions : t.id \in last.new}

\* the balance of a just before add_transaction was called for the row t
PreApply(t, a) ==
    last.before[a].balance + SumEffects({u \in Created : u.id < t.id}, a)

\* this step is Reverse(t.id), and the step before it was the Apply of t
ApplyThenReverse(t) ==
    /\ last.op \in {"entry", "batch"} /\ last.result = "ok"
    /\ t \in Created
    /\ last'.op = "delete_transaction" /\ last'.id = t.id

\* the other rows that carry the batch marker of t
Siblings(t) ==
    {u \in transactions \ {t} :
        BatchIdOf(t.remark) # NULL /\ RemarkHas(u.remark, BatchIdOf(t.remark))}

\* C3 as stated: Apply(tx) then Reverse(tx.id) puts every account tx touched
\* back to its balance before the Apply, and removes the row of tx.
C3_RoundTripAsStated ==
    [][ \A t \in transactions :
            ApplyThenReverse(t) =>
                /\ \A a \in Touched(t) : accounts'[a].balance = PreApply(t, a)
                /\ \A u \in transactions' : u.id # t.id ]_vars

\* C3 amended: Apply(tx) then Reverse(tx.id) removes the row of tx, and puts
\* back to its balance before the Apply every account tx touched that no
\* other transaction with the batch marker of tx touches.
C3_RoundTrip ==
    [][ \A t \in transactions :
            ApplyThenReverse(t) =>
                /\ \A a \in Touched(t) :
                      (\A u \in Siblings(t) : a \notin Touched(u))
                          => accounts'[a].balance = PreApply(t, a)
                /\ \A u \in transactions' : u.id # t.id ]_vars

\* Scenario B: one transaction was applied and then reversed, and the
\* balances are the opening balances again
C3_Witness ==
    /\ last.op = "delete_transaction" /\ last.result = "ok" /\ last.count = 1
    /\ nextTxId = 2 /\ transactions = {}
    /\ last.before # accounts
    /\ \A a \in DOMAIN accounts : accounts[a].balance = opening[a]

\* C4: a batch of which a leg fails leaves no row of the batch in the table
\* and no balance changed.
C4_BatchAllOrNothing ==
    (last.op = "batch" /\ last.result = "raised")
        => (last.new = {} /\ accounts = last.before)

\* the rows in the table that one submit of the entry form inserted
\* together with t
SameBatch(t) == {u \in transactions : u.id \in legsOf[t.id]}

\* C5: Reverse of the id of one leg of a batch removes the rows of all legs
\* of the batch and gives every account back the effect of every removed row.
C5_BatchReversal ==
    [][ (last'.op = "delete_transaction" /\ last'.result = "ok") =>
          \A t \in transactions :
              t.id = last'.id =>
                  LET gone == transactions \ transactions'
                  IN  /\ t \in gone
                      /\ SameBatch(t) \subseteq gone
                      /\ transactions' \subseteq transactions
                      /\ \A a \in DOMAIN accounts :
                            accounts'[a].balance =
                                accounts[a].balance - SumEffects(gone, a) ]_vars

\* Scenario C: an Expense and a Virtual Expense of one batch on two accounts
\* were both removed by one Reverse, and both balances are back
C5_Witness ==
    /\ last.op = "delete_transaction" /\ last.result = "ok" /\ last.count = 2
    /\ transactions = {} /\ nextTxId = 3
    /\ last.before[1].balance = opening[1] - 1
    /\ last.before[2].balance = opening[2] - 2
    /\ \A a \in DOMAIN accounts : accounts[a].balance = opening[a]

\* C6: Reverse of an id that is not in the table reports not-found and
\* changes no balance, no transaction and no schedule entry.
C6_ReverseUnknownId ==
    [][ (last'.op = "delete_transaction"
         /\ \A t \in transactions : t.id # last'.id) =>
            /\ last'.result = "not_found"
            /\ accounts' = accounts
            /\ transactions' = transactions
            /\ schedule' = schedule ]_vars

\* a Reverse of an id that was reversed before has reported not-found
C6_Witness ==
    /\ last.op = "delete_transaction" /\ last.result = "not_found"
    /\ last.id < nextTxId
    /\ accounts = last.before

\* C7: an Apply that fails because an account it names is not in the table
\* leaves no row and no balance changed.
C7_NoPartialApply ==
    (last.op = "entry" /\ last.result = "raised")
        => (last.new = {} /\ accounts = last.before)

\* the calendar steps of the specification
LastDay(y, m, d) == <<y, m, IF d > DaysInMonth(y, m) THEN DaysInMonth(y, m) ELSE d>>

Tomorrow(d) ==
    IF d[3] < DaysInMonth(d[1], d[2]) THEN <<d[1], d[2], d[3] + 1>>
    ELSE IF d[2] < 12 THEN <<d[1], d[2] + 1, 1>>
    ELSE <<d[1] + 1, 1, 1>>

RECURSIVE DaysLater(_, _)
DaysLater(d, n) == IF n = 0 THEN d ELSE DaysLater(Tomorrow(d), n - 1)

OneStep(freq, d) ==
    CASE freq = "Daily"   -> DaysLater(d, 1)
      [] freq = "Weekly"  -> DaysLater(d, 7)
      [] freq = "Monthly" -> IF d[2] = 12 THEN LastDay(d[1] + 1, 1, d[3])
                             ELSE LastDay(d[1], d[2] + 1, d[3])
      [] freq = "Yearly"  -> LastDay(d[1] + 1, d[2], d[3])

Due == {x \in schedule : DateLE(x.next_run_date, today)}

\* the rows of 'transactions' that this step inserted for an entry like x
MadeFor(x) ==
    {t \in transactions' \ transactions :
        /\ t.date = x.next_run_date /\ t.amount = x.amount
        /\ t.from_account_id = x.from_account_id
        /\ t.to_account_id = x.to_account_id}

\* the due entries with the date, amount and accounts of x
Alike(x) ==
    {y \in Due :
        /\ y.next_run_date = x.next_run_date /\ y.amount = x.amount
        /\ y.from_account_id = x.from_account_id
        /\ y.to_account_id = x.to_account_id}

\* C8: one run of the scheduler makes one transaction, dated with the next run
\* date, for each entry whose next run date is today or earlier; it deletes
\* the entry if it is One-Time and else moves its next run date one step
\* (a day, seven days, a calendar month, a calendar year); the entries that
\* are not due stay as they are and make no transaction.
C8_ProcessDue ==
    [][ last'.op = "process_scheduled" =>
          /\ transactions \subseteq transactions'
          /\ Cardinality(transactions' \ transactions) = Cardinality(Due)
          /\ \A x \in Due :
                /\ Cardinality(MadeFor(x)) = Cardinality(Alike(x))
                /\ IF x.frequency = "One-Time"
                   THEN \A y \in schedule' : y.id # x.id
                   ELSE [x EXCEPT !.next_run_date =
                            OneStep(x.frequency, x.next_run_date)] \in schedule'
          /\ \A x \in schedule \ Due : x \in schedule'
          /\ Cardinality(schedule') =
                Cardinality(schedule)
                    - Cardinality({x \in Due : x.frequency = "One-Time"}) ]_vars

\* Scenario D with the month end: a Monthly entry due on 2024-01-31 made one
\* transaction of that date and now stands at 2024-02-29
C8_Witness ==
    /\ last.op = "process_scheduled" /\ last.count = 1
    /\ \E x \in schedule :
          x.frequency = "Monthly" /\ x.next_run_date = <<2024, 2, 29>>
    /\ \E t \in transactions : t.id \in last.new /\ t.date = <<2024, 1, 31>>

\* C9: after a run of the scheduler, and after a reversal of a transaction
\* it made, every balance is the opening balance plus the signed effects of
\* the transactions in the table.
C9_LedgerInvariantAfterProcessDue ==
    (last.op \in {"process_scheduled", "delete_transaction"}) => Balanced

\* C10: a run of the scheduler that directly follows a run on the same day
\* processes no entry and makes no transaction.
C10_SecondRunProcessesNothing ==
    [][ (last.op = "process_scheduled" /\ last'.op = "process_scheduled") =>
            (last'.count = 0 /\ transactions' = transactions) ]_vars

\* C11: a run date of a schedule row makes at most one transaction, also
\* when the scheduler runs of two sessions interleave.
C11_OncePerOccurrence ==
    \A e1 \in executed, e2 \in executed :
        (e1[1] = e2[1] /\ e1[2] = e2[2]) => e1 = e2

\* C12: a due schedule row that stores a type makes a transaction of that
\* type; the type is inferred from the accounts only when none is stored.
C12_StoredTypeGoverns ==
    [][ last'.op = "process_scheduled" =>
          \A x \in Due :
              x.type # NoType =>
                  Cardinality({t \in MadeFor(x) : t.type = x.type})
                      >= Cardinality({y \in Alike(x) : y.type = x.type}) ]_vars

\* C13: a run of the scheduler leaves a due row with is_manual = true as it
\* is and makes no transaction for it.
C13_ManualNotAutoExecuted ==
    [][ last'.op = "process_scheduled" =>
          \A x \in Due :
              x.is_manual =>
                  /\ x \in schedule'
                  /\ Cardinality(MadeFor(x))
                        <= Cardinality({y \in Alike(x) : ~y.is_manual}) ]_vars

SameDayNextMonth(d) ==
    LET y == IF d[2] = 12 THEN d[1] + 1 ELSE d[1]
        m == IF d[2] = 12 THEN 1 ELSE d[2] + 1
        last_day == IF m = 2 THEN (IF (y % 4 = 0 /\ y % 100 # 0) \/ y % 400 = 0
                                  THEN 29 ELSE 28)
                    ELSE IF m \in {4, 6, 9, 11} THEN 30 ELSE 31
    IN  <<y, m, IF d[3] > last_day THEN last_day ELSE d[3]>>

\* C15: a run of the scheduler moves a due Monthly row to the same day of the
\* next month, or to that month's last day: 2024-01-31 goes to 2024-02-29
\* and 2023-01-31 to 2023-02-28.
C15_MonthlyClamp ==
    [][ last'.op = "process_scheduled" =>
          \A x \in Due :
              x.frequency = "Monthly" =>
                  /\ [x EXCEPT !.next_run_date = SameDayNextMonth(@)] \in schedule'
                  /\ (x.next_run_date = <<2024, 1, 31>> =>
                        [x EXCEPT !.next_run_date = <<2024, 2, 29>>] \in schedule')
                  /\ (x.next_run_date = <<2023, 1, 31>> =>
                        [x EXCEPT !.next_run_date = <<2023, 2, 28>>] \in schedule') ]_vars

\* a Monthly row of 2023-01-31 made a transaction of that date and stands at
\* 2023-02-28
C15_Witness ==
    /\ last.op = "process_scheduled" /\ last.count = 1
    /\ \E x \in schedule :
          x.frequency = "Monthly" /\ x.next_run_date = <<2023, 2, 28>>
    /\ \E t \in transactions : t.id \in last.new /\ t.date = <<2023, 1, 31>>

\* a schedule row without the account its transaction needs: no account is
\* set, or an account that is set has no row in 'accounts'
Malformed(x) ==
    \/ x.from_account_id = NULL /\ x.to_account_id = NULL
    \/ x.from_account_id # NULL /\ x.from_account_id \notin DOMAIN accounts
    \/ x.to_account_id # NULL /\ x.to_account_id \notin DOMAIN accounts

\* C16: a run of the scheduler makes no transaction for a due row that lacks
\* the account it needs, and makes one for every other due row.
C16_MalformedSkipped ==
    [][ last'.op = "process_scheduled" =>
          \A x \in Due :
              IF Malformed(x)
              THEN Cardinality(MadeFor(x))
                     <= Cardinality({y \in Alike(x) : ~Malformed(y)})
              ELSE Cardinality(MadeFor(x)) >= 1 ]_vars

\* the Virtual Funding rows to account a dated in the month of today or later
FundedThisMonth(a) ==
    {t \in transactions :
        /\ t.type = "Virtual Funding" /\ t.to_account_id = a
        /\ DateLE(<<today[1], today[2], 1>>, t.date)}

\* C17: a run of the auto funder posts at most one transaction to an account,
\* and none to an account that has a Virtual Funding transaction dated on or
\* after the first day of the month; so runs one after the other post at
\* most one automatic funding per account and month.
C17_AutoFundOncePerMonth ==
    [][ last'.op = "auto_fund" =>
          \A a \in DOMAIN accounts :
              LET posted == {t \in transactions' \ transactions :
                                t.to_account_id = a}
              IN  /\ Cardinality(posted) <= 1
                  /\ FundedThisMonth(a) # {} => posted = {} ]_vars

\* goalAmount / term, the term being 12 months when the account names none
MonthlyRequirement(f) ==
    f.goal_amount \div (IF f.term = NoTerm THEN 12 ELSE f.term)

\* what a run of the auto funder did to account a: one Virtual Funding of
\* min(goal / term, goal - balance) that raises the balance by it, never
\* above the goal, if a is eligible; nothing if a is idle
FundedAsClaimed(a, eligible, idle) ==
    LET f == funds[a]
        bal == accounts[a].balance
        posted == {t \in transactions' \ transactions :
                      t.from_account_id = a \/ t.to_account_id = a}
        due_amount == IF MonthlyRequirement(f) < f.goal_amount - bal
                      THEN MonthlyRequirement(f)
                      ELSE f.goal_amount - bal
    IN  /\ eligible => /\ \E t \in posted :
                             /\ posted = {t}
                             /\ t.type = "Virtual Funding"
                             /\ t.to_account_id = a
                             /\ t.amount = due_amount
                        /\ accounts'[a].balance = bal + due_amount
                        /\ accounts'[a].balance <= f.goal_amount
        /\ idle => /\ posted = {}
                   /\ accounts'[a].balance = bal

Flagged(a) == funds[a].type = "Sinking Fund" /\ funds[a].auto

\* C18 as stated: eligible is every flagged Sinking Fund account below its
\* goal without a Virtual Funding this month; idle is every account that is
\* not flagged or has reached its goal.
C18_AutoFundAmountsAsStated ==
    [][ last'.op = "auto_fund" =>
          \A a \in DOMAIN accounts :
              FundedAsClaimed(a,
                  /\ Flagged(a)
                  /\ accounts[a].balance < funds[a].goal_amount
                  /\ FundedThisMonth(a) = {},
                  ~Flagged(a)
                      \/ accounts[a].balance >= funds[a].goal_amount) ]_vars

\* C18: a run of the auto funder posts, for every flagged Sinking Fund
\* account with a goal above zero that is below its goal and has no Virtual
\* Funding this month, one Virtual Funding of min(goal / term, goal - balance)
\* and raises the balance by it, never above the goal; for an account that is
\* not flagged, has no goal above zero or has reached its goal it posts
\* nothing and leaves the balance alone.
C18_AutoFundAmounts ==
    [][ last'.op = "auto_fund" =>
          \A a \in DOMAIN accounts :
              FundedAsClaimed(a,
                  /\ Flagged(a)
                  /\ funds[a].goal_amount > 0
                  /\ accounts[a].balance < funds[a].goal_amount
                  /\ FundedThisMonth(a) = {},
                  \/ ~Flagged(a)
                  \/ funds[a].goal_amount <= 0
                  \/ accounts[a].balance >= funds[a].goal_amount) ]_vars

\* a flagged fund of goal 3 and term 1 stood at 1 and got 2, not 3; a fund at
\* its goal or without the flag, if there is one, got nothing
C18_Witness ==
    /\ last.op = "auto_fund" /\ last.result = "ok"
    /\ \E t \in transactions :
          /\ t.id \in last.new /\ t.type = "Virtual Funding" /\ t.amount = 2
          /\ funds[t.to_account_id].goal_amount = 3
          /\ last.before[t.to_account_id].balance = 1
          /\ accounts[t.to_account_id].balance = 3
    /\ \E a \in DOMAIN accounts :
          /\ funds[a].type = "Sinking Fund"
          /\ ~funds[a].auto \/ last.before[a].balance >= funds[a].goal_amount
          /\ accounts[a] = last.before[a]

\* C19: when two sessions have finished entries or reversals that touch one
\* account, whatever the order of their requests, the balance is what the
\* two would have made one after the other: the opening balance plus the
\* signed effects of the transactions in the table.
C19_NoLostUpdate ==
    (\A s \in Sessions : session[s].pc = "idle") => Balanced

\* C20: when the scheduler has rescheduled or deleted a due row, in a run
\* that may follow runs stopped at any request, exactly one transaction
\* has been made for that row and run date.
C20_CrashExactlyOnce ==
    [][ last'.op = "update_due" =>
          LET item == session[last'.id].item
          IN  Cardinality({e \in executed :
                              e[1] = item.id /\ e[2] = item.next_run_date}) = 1 ]_vars

\* the sign an account type has in the net-worth formula; 0 for the types
\* the formula does not name
SignOf(type) ==
    IF type \in {"Bank", "Sinking Fund", "Receivable"} THEN 1
    ELSE IF type \in {"Credit Card", "Custodial"} THEN -1
    ELSE 0

RECURSIVE SumOver(_, _)
SumOver(S, f) ==
    IF S = {} THEN 0
    ELSE LET x == CHOOSE y \in S : TRUE
         IN  f[x] + SumOver(S \ {x}, f)

\* C21: the net worth shown on the overview is the sum, over the accounts of
\* every currency that are active and included in net worth, of the balance
\* times the exchange rate, signed by the account type.
C21_HeadlineNetWorth ==
    [][ last'.op = "overview" =>
          page'.net_worth =
            SumOver({id \in DOMAIN accounts :
                        columns[id].include_net_worth /\ columns[id].is_active},
                    [id \in DOMAIN accounts |->
                        SignOf(funds[id].type) * accounts[id].balance
                          * columns[id].manual_exchange_rate]) ]_vars

\* the accounts whose balances the overview adds up
Counted == {id \in DOMAIN accounts :
               columns[id].is_active /\ columns[id].currency = "SGD"}

\* the total of the balances of the counted accounts of one type
TotalOf(type) ==
    SumOver({id \in Counted : funds[id].type = type},
            [id \in DOMAIN accounts |-> accounts[id].balance])

\* C22: net worth is Bank - Credit Card - Custodial + Sinking Fund +
\* Receivable over the totals of the account types, and the balances of Loan
\* and Investment accounts do not enter it.
C22_NetWorthFormula ==
    [][ last'.op = "overview" =>
          /\ page'.net_worth = TotalOf("Bank") - TotalOf("Credit Card")
                                 - TotalOf("Custodial") + TotalOf("Sinking Fund")
                                 + TotalOf("Receivable")
          /\ page'.net_worth = page'.bank_tot - page'.cc_tot
                                 - page'.custodial_tot + page'.sf_tot
                                 + page'.rec_tot
          /\ page'.bank_tot = TotalOf("Bank")
          /\ page'.cc_tot = TotalOf("Credit Card")
          /\ page'.custodial_tot = TotalOf("Custodial")
          /\ page'.sf_tot = TotalOf("Sinking Fund")
          /\ page'.rec_tot = TotalOf("Receivable") ]_vars

\* an overview of a custodial account and a loan, both counted
C22_Witness ==
    /\ last.op = "overview"
    /\ \E a \in Counted, b \in Counted :
          /\ funds[a].type = "Custodial"
          /\ funds[b].type = "Loan"
          /\ page.net_worth = -accounts[a].balance

\* C23: liquid assets are Bank - Credit Card - Custodial - Sinking Fund over
\* the totals of the account types; receivables do not change the figure.
C23_LiquidFormula ==
    [][ last'.op = "overview" =>
          page'.liquid = TotalOf("Bank") - TotalOf("Credit Card")
                           - TotalOf("Custodial") - TotalOf("Sinking Fund") ]_vars

\* an overview of a sinking fund and a receivable, both counted
C23_Witness ==
    /\ last.op = "overview"
    /\ \E a \in Counted, b \in Counted :
          /\ funds[a].type = "Sinking Fund"
          /\ funds[b].type = "Receivable"
          /\ page.liquid = -accounts[a].balance

\* the calendar months from the month of today to the month of date d
MonthsRemaining(d) == (d[1] * 12 + d[2]) - (today[1] * 12 + today[2])

\* n, kept within lo..hi
Clamp(n, lo, hi) == IF n < lo THEN lo ELSE IF n > hi THEN hi ELSE n

\* the fund has a term of one month or more (12 when none is written down)
HasTerm(f) == f.term = NoTerm \/ f.term >= 1

\* the card of account a gives goalAmount / term as the monthly requirement
\* and counts 'elapsed' months as elapsed
CardAsStated(a, elapsed) ==
    LET card == page'.cards[a]
        term == Term(funds[a])
        requirement == MonthlyRequirement(funds[a])
        expected == Clamp(elapsed, 0, term) * requirement
    IN  /\ card.monthly_contrib = requirement
        /\ card.expected_bal = expected
        /\ accounts[a].balance < expected =>
              card.status = "Behind" /\ card.behind_by = expected - accounts[a].balance
        /\ accounts[a].balance >= expected => card.status # "Behind"

\* C24 as stated: the months elapsed are term - monthsRemaining(goalDate),
\* kept within 0..term; goal 1200, term 12 and 9 months remaining give an
\* expected balance of 300.
C24_GoalProgressAsStated ==
    [][ last'.op = "goals" =>
          \A a \in DOMAIN page'.cards :
              columns[a].goal_date # NoDate /\ HasTerm(funds[a]) =>
                  CardAsStated(a, Term(funds[a])
                                    - MonthsRemaining(columns[a].goal_date)) ]_vars

\* C24: the card of a sinking fund with a target date shows the monthly
\* requirement goalAmount / term and the expected balance monthsElapsed *
\* monthlyRequirement, where monthsElapsed is term - monthsRemaining + 1
\* kept within 0..term (the month of today counts as elapsed), and a balance
\* below the expected balance is reported as behind by the difference.
C24_GoalProgress ==
    [][ last'.op = "goals" =>
          \A a \in DOMAIN page'.cards :
              columns[a].goal_date # NoDate /\ HasTerm(funds[a]) =>
                  CardAsStated(a, Term(funds[a])
                                    - MonthsRemaining(columns[a].goal_date) + 1) ]_vars

\* the goals page of a fund with goal 1200, term 12, balance 250 and nine
\* months to the target date: four months elapsed, behind by 150
C24_Witness ==
    /\ last.op = "goals"
    /\ \E a \in DOMAIN page.cards :
          /\ funds[a].goal_amount = 1200 /\ Term(funds[a]) = 12
          /\ accounts[a].balance = 250
          /\ columns[a].goal_date # NoDate
          /\ MonthsRemaining(columns[a].goal_date) = 9
          /\ page.cards[a].expected_bal = 400
          /\ page.cards[a].status = "Behind"
          /\ page.cards[a].behind_by = 150

\* the calls that are no operation of the ledger engine: the account editor,
\* the goal settings, the pages, the schedule form, the calendar
OutsideLedger ==
    {"apply_editor_changes", "save_settings", "overview", "goals",
     "new_schedule", "edit_schedule", "advance_day"}

\* C25: a call that is no ledger operation (account editor, goal settings)
\* leaves the balance of every account that exists unchanged.
C25_BalanceOnlyThroughLedger ==
    [][ last'.op \in OutsideLedger =>
          \A id \in DOMAIN accounts \cap DOMAIN accounts' :
              accounts'[id].balance = accounts[id].balance ]_vars

\* C26: every account a transaction names, as from-account or as to-account,
\* has a row in 'accounts'; no account row is deleted while a transaction
\* refers to it.
C26_ReferencedAccountKept ==
    \A t \in transactions :
        /\ t.from_account_id # NULL => t.from_account_id \in DOMAIN accounts
        /\ t.to_account_id # NULL => t.to_account_id \in DOMAIN accounts

\* the transaction a row of the statement shows
ShownBy(r) == CHOOSE t \in transactions : t.id = r.id

\* C27: the past rows of a statement come newest first; the running balance
\* of the first row is the balance of the account, the running balance of
\* every later row is that of the row before less the amount of the row
\* before, and the amount of a row is the effect the effect table gives its
\* transaction on the account.
C27_StatementRunningBalance ==
    [][ last'.op = "statement" =>
          LET rows == page'.past_view
              a == page'.sel_id
          IN  /\ {r.id : r \in {rows[i] : i \in DOMAIN rows}}
                   = {t.id : t \in {u \in transactions :
                                      u.from_account_id = a \/ u.to_account_id = a}}
              /\ \A i, j \in DOMAIN rows :
                    i < j => \/ DateLT(rows[j].date, rows[i].date)
                             \/ rows[j].date = rows[i].date /\ rows[j].id < rows[i].id
              /\ rows # <<>> => rows[1].running_balance = accounts[a].balance
              /\ \A i \in DOMAIN rows :
                    /\ rows[i].amount = TableEffect(ShownBy(rows[i]), a)
                    /\ i > 1 => rows[i].running_balance
                                  = rows[i - 1].running_balance - rows[i - 1].amount ]_vars

\* C28: no call persists a Transfer whose from-account is its to-account;
\* such an entry is turned down and leaves the tables as they were.
C28_SameAccountTransferRejected ==
    [][ \A t \in transactions' \ transactions :
            t.type = "Transfer" => t.from_account_id # t.to_account_id ]_vars

\* transaction t has the accounts its type asks for, and no other
AccountsAsTypeRequires(t) ==
    /\ t.type \in {"Expense", "Virtual Expense"} =>
          t.from_account_id # NULL /\ t.to_account_id = NULL
    /\ t.type \in {"Income", "Virtual Funding", "Increase Loan"} =>
          t.to_account_id # NULL /\ t.from_account_id = NULL
    /\ t.type = "Transfer" =>
          t.from_account_id # NULL /\ t.to_account_id # NULL
    /\ t.from_account_id # NULL \/ t.to_account_id # NULL

\* C29: every transaction in the table, whether the entry form, the
\* scheduler or the auto funder made it, has exactly the accounts its type
\* requires: a from-account for Expense and Virtual Expense, a to-account
\* for Income, Virtual Funding and Increase Loan, both for Transfer, never
\* neither.
C29_AccountsAsTypeRequires ==
    \A t \in transactions : AccountsAsTypeRequires(t)

\* the scheduler has just made a transaction beside one of the auto funder
C29_Witness ==
    /\ last.op = "process_scheduled"
    /\ \E t \in transactions : t.id \in last.new /\ t.type = "Income"
    /\ \E t \in transactions : t.type = "Virtual Funding"

\* C30: every transaction in the table has an amount above zero, whichever
\* way it was made, the scheduler running an edited schedule row included.
C30_AmountPositive ==
    \A t \in transactions : t.amount > 0

\* C31: a transaction is never dated after the day it is made on, whether
\* the entry form, the scheduler, the auto funder or manual funding makes it.
C31_NoFutureDatedTransaction ==
    [][ \A t \in transactions' \ transactions : DateLE(t.date, today) ]_vars

\* the scheduler runs on 2024-02-29 an entry that was put off on 2024-01-31,
\* beside a transaction of the auto funder
C31_Witness ==
    /\ last.op = "process_scheduled"
    /\ today = <<2024, 2, 29>>
    /\ \E t \in transactions : t.id \in last.new /\ t.date = <<2024, 2, 1>>
    /\ \E t \in transactions : t.type = "Virtual Funding"

\* C32 as stated: liquid assets are net worth less the sinking funds and
\* less the receivables.
C32_LiquidFromNetWorthAsStated ==
    [][ last'.op = "overview" =>
          page'.liquid = page'.net_worth - TotalOf("Sinking Fund")
                           - TotalOf("Receivable") ]_vars

\* C32: liquid assets are net worth less twice the sinking funds and less
\* the receivables: the sinking funds are added in net worth and taken off
\* in liquid assets, the receivables are added in net worth only.
C32_LiquidFromNetWorth ==
    [][ last'.op = "overview" =>
          page'.liquid = page'.net_worth - 2 * TotalOf("Sinking Fund")
                           - TotalOf("Receivable") ]_vars

\* an overview of a sinking fund and a receivable with balances that differ
C32_Witness ==
    /\ last.op = "overview"
    /\ \E a \in Counted, b \in Counted :
          /\ funds[a].type = "Sinking Fund" /\ accounts[a].balance # 0
          /\ funds[b].type = "Receivable" /\ accounts[b].balance # 0
          /\ page.net_worth = accounts[a].balance + accounts[b].balance
          /\ page.liquid = page.net_worth - 2 * accounts[a].balance
                             - accounts[b].balance

\* C33: a reversal whose batch marker matches no row does not end as a
\* success; the caller is given an error.
C33_EmptyBatchSurfaced ==
    [][ last'.op = "select_batch" /\ last'.count = 0 => last'.result # "ok" ]_vars

\* no session is in a script run
Quiet == \A s \in Sessions : session[s].pc = "idle"

\* C39: when the reversals of two sessions have run to their end, every
\* balance is what a single reversal leaves: the opening balance and the
\* effects of the transactions still in the table.
C39_ReversedOnce == Quiet => Balanced

\* the 'Virtual Funding' rows of this month that credit the account id
FundingsThisMonth(id) ==
    {t \in transactions : /\ t.type = "Virtual Funding"
                          /\ t.to_account_id = id
                          /\ DateLE(FirstOfMonth(today), t.date)}

\* C34: with the sessions running the automatic funding of one month step by
\* step in any interleaving, every sinking fund has at most one automatic
\* 'Virtual Funding' row of the month and the funding does not take its
\* balance above its goal
C34_FundedOncePerMonth ==
    \A id \in SinkingFunds :
        /\ Cardinality(FundingsThisMonth(id)) <= 1
        /\ \/ accounts[id].balance <= funds[id].goal_amount
           \/ accounts[id].balance = opening[id]

\* the batch ids in the text the row was entered with: in remark for a row made
\* at once, in description for a row the scheduler made from a row of schedule
TagsOf(t) ==
    {t.remark[i] : i \in 1..Len(t.remark)}
        \cup {t.description[i] : i \in 1..Len(t.description)}

\* C35: when the legs of a batch were put off and the scheduler has made their
\* transactions, a reversal of one of them that succeeds leaves no transaction
\* of that batch behind
C35_DeferredBatchReversedWhole ==
    [][ last'.op = "delete_transaction" /\ last'.result = "ok"
            => \A t \in transactions \ transactions', u \in transactions' :
                  TagsOf(t) \cap TagsOf(u) = {} ]_vars

\* C36: a reversal deletes only transactions made by the same submission of
\* the entry form as the transaction it was asked to reverse
C36_ReverseStaysInBatch ==
    [][ last'.op = "delete_transaction" /\ last'.id \in DOMAIN legsOf
            => {t.id : t \in transactions \ transactions'} \subseteq legsOf[last'.id] ]_vars

\* the run dates of x that are today or earlier, by the calendar steps of
\* the specification
RECURSIVE MissedFrom(_, _)
MissedFrom(freq, d) ==
    IF DateLT(today, d) THEN 0
    ELSE IF freq = "One-Time" THEN 1
    ELSE 1 + MissedFrom(freq, OneStep(freq, d))

RECURSIVE Outstanding(_)
Outstanding(rows) ==
    IF rows = {} THEN 0
    ELSE LET x == CHOOSE x \in rows : TRUE
         IN  MissedFrom(x.frequency, x.next_run_date) + Outstanding(rows \ {x})

\* a run moves every due recurring row to a strictly later date, and the
\* transactions it makes are as many as the run dates it takes off the rows
EachRunAdvances ==
    [][ last'.op = "process_scheduled" =>
          /\ \A x \in Due :
                x.frequency \in {"Daily", "Weekly", "Monthly", "Yearly"} =>
                    \E y \in schedule' :
                        /\ y.id = x.id
                        /\ DateLT(x.next_run_date, y.next_run_date)
                        /\ Cardinality(MadeFor(x)) = 1
          /\ Cardinality(transactions') + Outstanding(schedule')
                = Cardinality(transactions) + Outstanding(schedule) ]_vars

\* C37: with the day fixed and the scheduler run again and again, every run
\* moves each due Daily, Weekly, Monthly or Yearly row to a strictly later
\* date and makes one transaction for the run date it leaves; in the end no
\* row is due, and each run date of a row up to the day has made exactly one
\* transaction
C37_SchedulerCatchesUp ==
    /\ EachRunAdvances
    /\ <>[](Due = {})

\* a row with two run dates behind it has made its two transactions and is
\* ahead of the day
C37_Witness ==
    /\ last.op = "process_scheduled"
    /\ Due = {}
    /\ \E x \in schedule : x.frequency \in {"Daily", "Weekly", "Monthly", "Yearly"}
    /\ Cardinality(transactions) = 2
    /\ \A t \in transactions, u \in transactions : t.date = u.date => t = u

\* the transaction process_scheduled_transactions inserts for the row x
MadeBy(x) == CHOOSE t \in InsertItem(DB, x).transactions \ transactions : TRUE

\* C38: every row of the statement's projection has as its amount the signed
\* effect, on the selected account, of the transaction the scheduler makes
\* for the schedule row it shows
C38_ProjectionAgreesWithScheduler ==
    (last.op = "statement" /\ page.menu = "Statement") =>
        \A i \in DOMAIN page.future_view :
            \A x \in schedule :
                x.id = page.future_view[i].id =>
                    page.future_view[i].amount
                        = TableEffect(MadeBy(x), page.sel_id)

====
